---- MODULE Spec2Model ----
(***************************************************************************)
(* The response-normalization pipeline of the ROI calculator frontend:     *)
(* prepareContent (the short form of App.tsx and ChatInterface.tsx and the  *)
(* LaTeX-aware form of the chat panel), formatCurrency and                  *)
(* extractChartDataFromResponse, modelled on texts that are sequences of    *)
(* one-character strings.  Every regular                                    *)
(* expression of the source is a matcher operator that returns the match    *)
(* the JavaScript engine finds at a given position (leftmost, greedy or     *)
(* lazy as written, with its capture groups), and String.prototype.replace  *)
(* is modelled with its replacement patterns ($$, $&, $n).                  *)
(* Numbers are doubles: significands of 53 binary digits, every operation  *)
(* rounded to the nearest value.  The page of App.tsx and the chat of       *)
(* ChatInterface.tsx are modelled with their requests in flight.            *)
(***************************************************************************)
EXTENDS Integers, Sequences, FiniteSets, TLC

VARIABLES
  text,           \* the response (or message) text
  pc,             \* how far the text has been taken: "raw", "rendered", "again"
  processedText,  \* what prepareContent returned
  trail,          \* the intermediate texts of prepareContent
  rendered,       \* what the panel shows: formatCurrency of processedText
  again,          \* the result of a second application
  budget,         \* the form's budget field
  duration,       \* the form's duration field
  chartData,      \* the chart data of App.tsx
  employees,      \* the form's employees field
  customFields,   \* the custom fields of the form, each a title and a value
  files,          \* the files selected last
  response,       \* the analysis text of App.tsx
  loading,        \* a calculation is under way
  documentLoading, \* documents are being processed
  extractedData,  \* the documents shown below the form
  uploads,        \* the /document_intelligence requests in flight, in order of issue
  calculations,   \* the /calculate_roi requests in flight, in order of issue
  lastUpload,     \* the upload that came back last, in a one-element sequence
  lastCalculation, \* the calculation that was answered last, likewise
  messages,       \* the messages of the chat panel
  inputValue,     \* the chat's input
  isLoading,      \* a chat message is being answered
  sessionId,      \* the chat's session identifier
  serviceStatus,  \* "checking", "available" or "unavailable"
  error,          \* the chat's error text, or Null
  currentContextVersion, \* the context version the chat recorded last
  isNewSession,   \* the next /ask request opens a new session
  asks,           \* the /ask requests in flight, in order of issue
  timers,         \* how many fallback timers are pending
  healthChecks,   \* how many health checks of the session effect are in flight
  retries,        \* how many health checks of retryConnection are in flight
  generated,      \* how many session identifiers the page has generated
  issued,         \* how many /ask requests were issued since the chat was last reset
  toasts,         \* the notifications raised by the last step
  actions         \* how many actions the user has taken

panel == <<text, pc, processedText, trail, rendered, again>>
form == <<budget, duration, chartData>>
app == <<employees, customFields, files, response, loading, documentLoading,
         extractedData, uploads, calculations, lastUpload, lastCalculation>>
tracked == <<currentContextVersion, sessionId, generated, isNewSession, messages,
             healthChecks, issued>>
chatRest == <<inputValue, isLoading, serviceStatus, error, asks, timers, retries>>
page == <<app, tracked, chatRest, toasts, actions>>
vars == <<panel, form, page>>

(***************************************************************************)
(* Characters and strings                                                  *)
(***************************************************************************)
Chars(s) == [i \in 1..Len(s) |-> SubSeq(s, i, i)]

Digits == {"0", "1", "2", "3", "4", "5", "6", "7", "8", "9"}
LowerLetters == {"a", "b", "c", "d", "e", "f", "g", "h", "i", "j", "k", "l", "m",
                 "n", "o", "p", "q", "r", "s", "t", "u", "v", "w", "x", "y", "z"}
UpperLetters == {"A", "B", "C", "D", "E", "F", "G", "H", "I", "J", "K", "L", "M",
                 "N", "O", "P", "Q", "R", "S", "T", "U", "V", "W", "X", "Y", "Z"}
\* \s of a JavaScript regular expression (the members a text can hold here)
WhiteSpace == {" ", "\t", "\n", "\r", "\f"}
\* the line terminators: "." matches none of them, and ^ and $ of a
\* multiline expression match beside them
LineTerminators == {"\n", "\r"}
\* \w
WordChars == LowerLetters \cup UpperLetters \cup Digits \cup {"_"}

IsDigit(c) == c \in Digits
IsSpace(c) == c \in WhiteSpace

DigitValue(c) ==
  CASE c = "0" -> 0 [] c = "1" -> 1 [] c = "2" -> 2 [] c = "3" -> 3 [] c = "4" -> 4
    [] c = "5" -> 5 [] c = "6" -> 6 [] c = "7" -> 7 [] c = "8" -> 8 [] c = "9" -> 9

DigitChar(d) ==
  CASE d = 0 -> "0" [] d = 1 -> "1" [] d = 2 -> "2" [] d = 3 -> "3" [] d = 4 -> "4"
    [] d = 5 -> "5" [] d = 6 -> "6" [] d = 7 -> "7" [] d = 8 -> "8" [] d = 9 -> "9"

\* s from position i to its end
Tail2(s, i) == SubSeq(s, i, Len(s))

\* whether the literal p stands in s at position i
StartsAt(s, i, p) ==
  /\ i >= 1
  /\ i + Len(p) - 1 <= Len(s)
  /\ SubSeq(s, i, i + Len(p) - 1) = p

\* String.prototype.includes
Includes(s, p) == \E i \in 1..(Len(s) + 1) : StartsAt(s, i, p)

\* the least of a set of positions, or none when the set is empty
Least(positions, none) ==
  IF positions = {} THEN none
  ELSE CHOOSE j \in positions : \A k \in positions : j <= k

\* the end (exclusive) of the longest run of characters of set cs from i:
\* the first position from i on whose character is outside cs
RunEnd(s, i, cs) == Least({j \in i..Len(s) : s[j] \notin cs}, Len(s) + 1)

\* the same for the characters outside cs
RunEndNot(s, i, cs) == Least({j \in i..Len(s) : s[j] \in cs}, Len(s) + 1)

\* a position is a line start (^ under the m flag) or a line end ($ under it)
AtLineStart(s, i) == i = 1 \/ (i - 1 <= Len(s) /\ s[i - 1] \in LineTerminators)
AtLineEnd(s, i) == i = Len(s) + 1 \/ (i <= Len(s) /\ s[i] \in LineTerminators)

\* Number(number) on a digit run
RECURSIVE ParseDigits(_)
ParseDigits(ds) ==
  IF ds = <<>> THEN 0
  ELSE 10 * ParseDigits(SubSeq(ds, 1, Len(ds) - 1)) + DigitValue(ds[Len(ds)])

\* the decimal digits of a natural number
RECURSIVE NumberToChars(_)
NumberToChars(n) ==
  IF n < 10 THEN <<DigitChar(n)>>
  ELSE NumberToChars(n \div 10) \o <<DigitChar(n % 10)>>

\* Number.prototype.toLocaleString for a natural number (en-US grouping)
ToLocaleString(n) ==
  LET ds == NumberToChars(n)
      len == Len(ds)
      f[i \in 1..(len + 1)] ==
        IF i > len THEN <<>>
        ELSE (IF i > 1 /\ (len - i + 1) % 3 = 0 THEN <<",">> ELSE <<>>)
             \o <<ds[i]>> \o f[i + 1]
  IN f[1]

(***************************************************************************)
(* String.prototype.replace                                                *)
(***************************************************************************)
NoMatch == [ok |-> FALSE, end |-> 0, g |-> <<>>]
Match(e, groups) == [ok |-> TRUE, end |-> e, g |-> groups]

\* The matches of a global expression that the search takes, given the
\* positions starts at which the expression matches in a text of length n:
\* the leftmost one, then the leftmost one at or after its end, and so on
TakenMatches(starts, n, at) ==
  LET f[i \in 1..(n + 1)] ==
        IF i \in starts
        THEN <<[start |-> i, end |-> at[i].end, g |-> at[i].g]>> \o f[at[i].end]
        ELSE IF \E j \in starts : j > i
        THEN f[Least({j \in starts : j > i}, n + 1)]
        ELSE <<>>
  IN f[1]

\* The successive matches of a global expression in s: at[i] is the match
\* of the expression that starts at position i (end is the position after
\* it); the search resumes after each match.  No expression of the source
\* matches the empty string.
AllMatches(s, at) == TakenMatches({i \in 1..Len(s) : at[i].ok}, Len(s), at)

\* the first match only (a string pattern)
FirstMatch(s, at) ==
  LET i == Least({j \in 1..Len(s) : at[j].ok}, 0)
  IN IF i = 0 THEN <<>> ELSE <<[start |-> i, end |-> at[i].end, g |-> at[i].g]>>

\* s with each match ms[k] replaced by the text reps[k]
Splice(s, ms, reps) ==
  LET n == Len(ms)
      f[k \in 1..(n + 1)] ==
        IF k > n THEN <<>>
        ELSE reps[k]
             \o SubSeq(s, ms[k].end, (IF k = n THEN Len(s) + 1 ELSE ms[k + 1].start) - 1)
             \o f[k + 1]
  IN IF n = 0 THEN s ELSE SubSeq(s, 1, ms[1].start - 1) \o f[1]

\* GetSubstitution of ECMAScript: the expansion of a replacement string for
\* the match m of s.  $$ is a dollar sign, $& the match, $` and $' the text
\* before and after it, $n and $nn a capture group when the expression has
\* one of that number; any other dollar sign stands for itself.
GetSubstitution(s, m, template) ==
  LET n == Len(template)
      caps == Len(m.g)
      f[i \in 1..(n + 1)] ==
        IF i > n THEN <<>>
        ELSE IF template[i] # "$" \/ i = n
        THEN SubSeq(template, i, RunEndNot(template, i + 1, {"$"}) - 1)
             \o f[RunEndNot(template, i + 1, {"$"})]
        ELSE LET c == template[i + 1]
             IN CASE c = "$" -> <<"$">> \o f[i + 2]
                  [] c = "&" -> SubSeq(s, m.start, m.end - 1) \o f[i + 2]
                  [] c = "`" -> SubSeq(s, 1, m.start - 1) \o f[i + 2]
                  [] c = "'" -> Tail2(s, m.end) \o f[i + 2]
                  [] c \in Digits ->
                       LET d1 == DigitValue(c)
                           two == IF i + 2 <= n /\ template[i + 2] \in Digits
                                  THEN 10 * d1 + DigitValue(template[i + 2]) ELSE 0
                       IN IF two >= 1 /\ two <= caps THEN m.g[two] \o f[i + 3]
                          ELSE IF d1 >= 1 /\ d1 <= caps THEN m.g[d1] \o f[i + 2]
                          ELSE <<"$">> \o f[i + 1]
                  [] OTHER -> <<"$">> \o f[i + 1]
  IN f[1]

\* text.replace(/expression/g, 'template')
ReplaceAll(s, at, template) ==
  LET ms == AllMatches(s, at)
  IN Splice(s, ms, [k \in 1..Len(ms) |-> GetSubstitution(s, ms[k], template)])

\* a literal p as an expression
LiteralRule(s, i, p) == IF StartsAt(s, i, p) THEN Match(i + Len(p), <<>>) ELSE NoMatch

\* text.replace(/literal/g, 'template')
ReplaceLiteral(s, p, template) ==
  ReplaceAll(s, [i \in 1..Len(s) |-> LiteralRule(s, i, p)], template)

(***************************************************************************)
(* prepareContent of App.tsx and of ChatInterface.tsx (the two are the     *)
(* same three replacements)                                                *)
(***************************************************************************)
\* the bullet expression without its ^
BulletRuleUnanchored(s, i) ==
  IF s[i] = "-" /\ i + 1 <= Len(s) /\ s[i + 1] \notin WhiteSpace
  THEN Match(i + 2, <<SubSeq(s, i + 1, i + 1)>>)
  ELSE NoMatch

\* /^-([^\s])/gm
BulletRule(s, i) ==
  IF /\ AtLineStart(s, i)
     /\ s[i] = "-"
     /\ i + 1 <= Len(s)
     /\ s[i + 1] \notin WhiteSpace
  THEN Match(i + 2, <<SubSeq(s, i + 1, i + 1)>>)
  ELSE NoMatch

\* text.replace(/^-([^\s])/gm, '- $1')
NormalizeBullets(s) ==
  ReplaceAll(s, [i \in 1..Len(s) |-> BulletRule(s, i)], Chars("- $1"))

\* the end of the token \d[\d,]*(?:\.\d+)? that starts at the digit s[i]
CurrencyTokenEnd(s, i) ==
  LET e1 == RunEnd(s, i + 1, Digits \cup {","})
  IN IF e1 + 1 <= Len(s) /\ s[e1] = "." /\ s[e1 + 1] \in Digits
     THEN RunEnd(s, e1 + 1, Digits)
     ELSE e1

\* /\$(\d[\d,]*(?:\.\d+)?)/g
CurrencyRule(s, i) ==
  IF s[i] = "$" /\ i + 1 <= Len(s) /\ s[i + 1] \in Digits
  THEN LET e == CurrencyTokenEnd(s, i + 1)
       IN Match(e, <<SubSeq(s, i + 1, e - 1)>>)
  ELSE NoMatch

\* the replacer function: '\\$' + match.substring(1)
ProtectCurrency(s) ==
  LET ms == AllMatches(s, [i \in 1..Len(s) |-> CurrencyRule(s, i)])
  IN Splice(s, ms, [k \in 1..Len(ms) |->
                      <<"\\", "$">> \o SubSeq(s, ms[k].start + 1, ms[k].end - 1)])

\* /([^\n])\n([^\n])/g
LineBreakRule(s, i) ==
  IF /\ i + 2 <= Len(s)
     /\ s[i] # "\n"
     /\ s[i + 1] = "\n"
     /\ s[i + 2] # "\n"
  THEN Match(i + 3, <<SubSeq(s, i, i), SubSeq(s, i + 2, i + 2)>>)
  ELSE NoMatch

\* processedText.replace(/([^\n])\n([^\n])/g, '$1\n\n$2')
EnsureLineBreaks(s) ==
  ReplaceAll(s, [i \in 1..Len(s) |-> LineBreakRule(s, i)], Chars("$1\n\n$2"))

\* the values of processedText after each of the three assignments
prepareContentSteps(t) ==
  LET bullets == NormalizeBullets(t)
      currency == ProtectCurrency(bullets)
      breaks == EnsureLineBreaks(currency)
  IN [bullets |-> bullets, currency |-> currency, breaks |-> breaks]

prepareContent(t) == IF t = <<>> THEN <<>> ELSE prepareContentSteps(t).breaks

(***************************************************************************)
(* prepareContent of the chat panel (the LaTeX-aware form)                 *)
(***************************************************************************)
\* [a-z-0-9]
CssNameChars == LowerLetters \cup Digits \cup {"-"}

\* /text-[a-z-0-9]+ /g and /dark:[a-z-0-9]+ /g : a prefix, a run of name
\* characters and one space
CssClassRule(s, i, prefix) ==
  IF StartsAt(s, i, prefix)
  THEN LET b == i + Len(prefix)
           e == RunEnd(s, b, CssNameChars)
       IN IF e > b /\ e <= Len(s) /\ s[e] = " " THEN Match(e + 1, <<>>) ELSE NoMatch
  ELSE NoMatch

TextClassRule(s, i) == CssClassRule(s, i, Chars("text-"))
DarkClassRule(s, i) == CssClassRule(s, i, Chars("dark:"))

\* /m[tblr]-[0-9]+ /g
MarginClassRule(s, i) ==
  IF /\ i + 2 <= Len(s)
     /\ s[i] = "m"
     /\ s[i + 1] \in {"t", "b", "l", "r"}
     /\ s[i + 2] = "-"
  THEN LET e == RunEnd(s, i + 3, Digits)
       IN IF e > i + 3 /\ e <= Len(s) /\ s[e] = " " THEN Match(e + 1, <<>>) ELSE NoMatch
  ELSE NoMatch

\* the first statement: escaped braces, display brackets, CSS class strings
\* and bullets
\* .replace(/text-[a-z]+-[0-9]+/g, '')
RemoveTextClasses(s) == ReplaceAll(s, [i \in 1..Len(s) |-> TextClassRule(s, i)], <<>>)

\* .replace(/m[tblr]-[0-9]+ /g, '')
RemoveMarginClasses(s) == ReplaceAll(s, [i \in 1..Len(s) |-> MarginClassRule(s, i)], <<>>)

\* .replace(/dark:[a-z]+-[a-z]+-[0-9]+/g, '')
RemoveDarkClasses(s) == ReplaceAll(s, [i \in 1..Len(s) |-> DarkClassRule(s, i)], <<>>)

CleanFormatting(t) ==
  LET a == ReplaceLiteral(t, Chars("\\{"), Chars("{"))
      b == ReplaceLiteral(a, Chars("\\}"), Chars("}"))
      c == ReplaceLiteral(b, Chars("\\["), <<>>)
      d == ReplaceLiteral(c, Chars("\\]"), <<>>)
      e == RemoveTextClasses(d)
      f == RemoveMarginClasses(e)
      g == RemoveDarkClasses(f)
  IN NormalizeBullets(g)

\* /\$?\\text\{([^}]+)\}(.*?)(?:\$|$)/g : groups textContent and remainder.
\* The lazy remainder ends at the first dollar sign or at the end of the
\* text, and fails at a line terminator.
TextCommandRule(s, i) ==
  LET j == IF s[i] = "$" THEN i + 1 ELSE i
  IN IF StartsAt(s, j, Chars("\\text{"))
     THEN LET c0 == j + 6
              e == RunEndNot(s, c0, {"}"})
          IN IF e > c0 /\ e <= Len(s)
             THEN LET q == RunEndNot(s, e + 1, {"$"} \cup LineTerminators)
                  IN IF q > Len(s)
                     THEN Match(q, <<SubSeq(s, c0, e - 1), SubSeq(s, e + 1, q - 1)>>)
                     ELSE IF s[q] = "$"
                     THEN Match(q + 1, <<SubSeq(s, c0, e - 1), SubSeq(s, e + 1, q - 1)>>)
                     ELSE NoMatch
             ELSE NoMatch
     ELSE NoMatch

\* match.startsWith('$') && match.endsWith('$')
Delimited(s, m) == s[m.start] = "$" /\ s[m.end - 1] = "$"

\* the replacer of the \text step: a delimited match is kept, any other is
\* wrapped in single dollar signs (both branches of the source return the
\* same string)
WrapTextCommands(s) ==
  LET ms == AllMatches(s, [i \in 1..Len(s) |-> TextCommandRule(s, i)])
  IN Splice(s, ms, [k \in 1..Len(ms) |->
       IF Delimited(s, ms[k]) THEN SubSeq(s, ms[k].start, ms[k].end - 1)
       ELSE Chars("$\\text{") \o ms[k].g[1] \o <<"}">> \o ms[k].g[2] \o <<"$">>])

\* the end (the position after it) of \frac\{[^}]+\}\{[^}]+\} at j, or 0
FracEnd(s, j) ==
  IF StartsAt(s, j, Chars("\\frac{"))
  THEN LET a == RunEndNot(s, j + 6, {"}"})
       IN IF a > j + 6 /\ a + 1 <= Len(s) /\ s[a + 1] = "{"
          THEN LET b == RunEndNot(s, a + 2, {"}"})
               IN IF b > a + 2 /\ b <= Len(s) THEN b + 1 ELSE 0
          ELSE 0
  ELSE 0

\* the end of `label\s*=\s*` followed by a fraction, from j, or 0
LabelledFracEnd(s, j, label) ==
  IF StartsAt(s, j, label)
  THEN LET a == RunEnd(s, j + Len(label), WhiteSpace)
       IN IF a <= Len(s) /\ s[a] = "="
          THEN FracEnd(s, RunEnd(s, a + 1, WhiteSpace))
          ELSE 0
  ELSE 0

\* /(\$?\\text\{ROI\}\s*=\s*\\frac\{[^}]+\}\{[^}]+\}\s*\\times\s*100\$?)/g
ROIFormulaRule(s, i) ==
  LET j == IF s[i] = "$" THEN i + 1 ELSE i
      f == LabelledFracEnd(s, j, Chars("\\text{ROI}"))
  IN IF f > 0
     THEN LET t == RunEnd(s, f, WhiteSpace)
          IN IF StartsAt(s, t, Chars("\\times"))
             THEN LET h == RunEnd(s, t + 6, WhiteSpace)
                  IN IF StartsAt(s, h, Chars("100"))
                     THEN LET e == IF h + 3 <= Len(s) /\ s[h + 3] = "$"
                                   THEN h + 4 ELSE h + 3
                          IN Match(e, <<SubSeq(s, i, e - 1)>>)
                     ELSE NoMatch
             ELSE NoMatch
     ELSE NoMatch

\* /(\$?\\text\{Payback Period\}\s*=\s*\\frac\{[^}]+\}\{[^}]+\}\$?)/g
PaybackFormulaRule(s, i) ==
  LET j == IF s[i] = "$" THEN i + 1 ELSE i
      f == LabelledFracEnd(s, j, Chars("\\text{Payback Period}"))
  IN IF f > 0
     THEN LET e == IF f <= Len(s) /\ s[f] = "$" THEN f + 1 ELSE f
          IN Match(e, <<SubSeq(s, i, e - 1)>>)
     ELSE NoMatch

\* match.replace(/^\$|\$$/, '') : the first of a leading and a trailing
\* dollar sign is removed
StripOneDollar(m) ==
  IF m # <<>> /\ m[1] = "$" THEN Tail2(m, 2)
  ELSE IF m # <<>> /\ m[Len(m)] = "$" THEN SubSeq(m, 1, Len(m) - 1)
  ELSE m

\* the replacer of the two formula steps (a function: its result is
\* literal), on the matches ms of s
DelimitFormulas(s, ms) ==
  Splice(s, ms, [k \in 1..Len(ms) |->
    IF Delimited(s, ms[k]) THEN ms[k].g[1]
    ELSE <<"$", "$">> \o StripOneDollar(ms[k].g[1]) \o <<"$", "$">>])

\* the ROI formula
DelimitROIFormulas(s) ==
  DelimitFormulas(s, AllMatches(s, [i \in 1..Len(s) |-> ROIFormulaRule(s, i)]))

\* the payback formula
DelimitPaybackFormulas(s) ==
  DelimitFormulas(s, AllMatches(s, [i \in 1..Len(s) |-> PaybackFormulaRule(s, i)]))

\* the ROI formula, then the payback formula
DelimitKnownFormulas(s) == DelimitPaybackFormulas(DelimitROIFormulas(s))

\* /([^$])(\\frac\{[^}]+\}\{[^}]+\})([^$]|$)/g
BareFracRule(s, i) ==
  IF s[i] # "$"
  THEN LET e == FracEnd(s, i + 1)
       IN IF e = 0 THEN NoMatch
          ELSE IF e > Len(s)
          THEN Match(e, <<SubSeq(s, i, i), SubSeq(s, i + 1, e - 1), <<>>>>)
          ELSE IF s[e] # "$"
          THEN Match(e + 1, <<SubSeq(s, i, i), SubSeq(s, i + 1, e - 1), SubSeq(s, e, e)>>)
          ELSE NoMatch
  ELSE NoMatch

\* processedText.replace(/([^$])(\\frac...)([^$]|$)/g, '$1$$$$2$$$$3')
DelimitBareFractions(s) ==
  ReplaceAll(s, [i \in 1..Len(s) |-> BareFracRule(s, i)], Chars("$1$$$$2$$$$3"))

\* STEP 1: .replace(/\$\$/g, '$').replace(/\$\$\$/g, '$')
NormalizeDelimiters(s) ==
  ReplaceLiteral(ReplaceLiteral(s, Chars("$$"), Chars("$")), Chars("$$$"), Chars("$"))

latexCommands == <<
  Chars("\\text"), Chars("\\frac"), Chars("\\times"), Chars("\\cdot"), Chars("\\div"),
  Chars("\\approx"), Chars("\\sqrt"), Chars("\\sum"), Chars("\\prod"), Chars("\\int"),
  Chars("\\lim"), Chars("\\log"), Chars("\\sin"), Chars("\\cos"), Chars("\\tan"),
  Chars("\\alpha"), Chars("\\beta"), Chars("\\gamma"), Chars("\\delta"),
  Chars("\\theta"), Chars("\\sigma"), Chars("\\omega"), Chars("\\pi") >>

\* latexCommands.some(cmd => s.includes(cmd))
HasLatexCommand(s) == \E k \in 1..Len(latexCommands) : Includes(s, latexCommands[k])

\* `__LATEX_BLOCK_${index}__`
Placeholder(index) == Chars("__LATEX_BLOCK_") \o NumberToChars(index) \o Chars("__")

\* content && content.trim()
NonBlank(content) == \E i \in 1..Len(content) : content[i] \notin WhiteSpace

\* the dollar expression with its closing dollar sign optional
DollarSpanRuleUnclosed(s, i) ==
  IF s[i] = "$"
  THEN LET q == RunEndNot(s, i + 1, {"$"} \cup LineTerminators)
       IN IF q <= Len(s) /\ s[q] = "$"
          THEN Match(q + 1, <<SubSeq(s, i + 1, q - 1)>>)
          ELSE Match(q, <<SubSeq(s, i + 1, q - 1)>>)
  ELSE NoMatch

\* /\$(.*?)\$/g : a dollar sign, the shortest text without a line terminator,
\* a dollar sign
DollarSpanRule(s, i) ==
  IF s[i] = "$"
  THEN LET q == RunEndNot(s, i + 1, {"$"} \cup LineTerminators)
       IN IF q <= Len(s) /\ s[q] = "$"
          THEN Match(q + 1, <<SubSeq(s, i + 1, q - 1)>>)
          ELSE NoMatch
  ELSE NoMatch

\* A replace whose replacer pushes onto existingLatexBlocks, which holds
\* base blocks already.  For the k-th match of ms, cap[k] tells whether the
\* replacer pushes (keep), the text it pushes (block) and the text it
\* returns around the placeholder of that block (before, after); a match it
\* does not push for is returned as it was.  The result is the new text and
\* the blocks pushed.
Capture(s, ms, base, cap) ==
  LET pushed == {k \in 1..Len(ms) : cap[k].keep}
      index(k) == base + Cardinality({j \in pushed : j < k})
      order[n \in 0..Len(ms)] ==
        IF n = 0 THEN <<>>
        ELSE IF cap[n].keep THEN Append(order[n - 1], cap[n].block)
        ELSE order[n - 1]
  IN [text |-> Splice(s, ms, [k \in 1..Len(ms) |->
                 IF cap[k].keep
                 THEN cap[k].before \o Placeholder(index(k)) \o cap[k].after
                 ELSE SubSeq(s, ms[k].start, ms[k].end - 1)]),
      blocks |-> order[Len(ms)]]

\* the existing dollar-delimited expressions become placeholders
CaptureDelimited(s) ==
  LET ms == AllMatches(s, [i \in 1..Len(s) |-> DollarSpanRule(s, i)])
  IN Capture(s, ms, 0, [k \in 1..Len(ms) |->
       [keep |-> NonBlank(ms[k].g[1]), block |-> ms[k].g[1],
        before |-> <<>>, after |-> <<>>]])

\* text.split('\n')
SplitLines(s) ==
  LET n == Len(s)
      f[i \in 1..(n + 1)] ==
        IF i > n THEN << <<>> >>
        ELSE LET e == RunEndNot(s, i, {"\n"})
             IN IF e > n THEN <<SubSeq(s, i, n)>>
                ELSE <<SubSeq(s, i, e - 1)>> \o f[e + 1]
  IN f[1]

\* lines.join('\n')
JoinLines(ls) ==
  LET f[k \in 1..Len(ls)] == IF k = 1 THEN ls[1] ELSE f[k - 1] \o <<"\n">> \o ls[k]
  IN IF ls = <<>> THEN <<>> ELSE f[Len(ls)]

\* A control character \cX of a regular expression, as a character of its own
ControlChar(letter) == "^" \o letter

\* the characters an escape \x of a regular expression source matches (the
\* expression is built without the u flag: an escape that names no class and
\* no control character is the character itself)
EscapeSet(x) ==
  CASE x = "t" -> {"\t"}
    [] x = "f" -> {"\f"}
    [] x = "n" -> {"\n"}
    [] x = "r" -> {"\r"}
    [] x = "d" -> Digits
    [] x = "s" -> WhiteSpace
    [] x = "w" -> WordChars
    [] OTHER -> {x}

\* new RegExp(`...${cmd}...`) reads the command's backslash as the start of
\* an escape: the atoms the command text stands for (a set of characters
\* each), and whether it starts with the assertion \b
CommandAtoms(cmd) ==
  LET x == cmd[2]
      lit(from) == [k \in 1..(Len(cmd) - from + 1) |-> {cmd[from + k - 1]}]
  IN IF x = "b" THEN [boundary |-> TRUE, atoms |-> lit(3)]
     ELSE IF x = "c" /\ Len(cmd) >= 3 /\ cmd[3] \in LowerLetters \cup UpperLetters
     THEN [boundary |-> FALSE, atoms |-> <<{ControlChar(cmd[3])}>> \o lit(4)]
     ELSE [boundary |-> FALSE, atoms |-> <<EscapeSet(x)>> \o lit(3)]

IsWordAt(s, i) == i >= 1 /\ i <= Len(s) /\ s[i] \in WordChars

\* whether the atoms of cmd match s at position j
CommandAt(s, j, cmd) ==
  LET ca == CommandAtoms(cmd)
      k == Len(ca.atoms)
  IN /\ j + k - 1 <= Len(s)
     /\ \A a \in 1..k : s[j + a - 1] \in ca.atoms[a]
     /\ ca.boundary => (IsWordAt(s, j - 1) # IsWordAt(s, j))

\* new RegExp(`([^$])(${cmd}[^$]+)([^$]|$)`, 'g') : groups prefix, expr, suffix
CommandRule(s, i, cmd) ==
  IF s[i] # "$" /\ CommandAt(s, i + 1, cmd)
  THEN LET r0 == i + 1 + Len(CommandAtoms(cmd).atoms)
           q == RunEndNot(s, r0, {"$"})
       IN IF q = r0 THEN NoMatch
          ELSE IF q > Len(s)
          THEN Match(q, <<SubSeq(s, i, i), SubSeq(s, i + 1, q - 1), <<>>>>)
          ELSE IF q - r0 >= 2
          THEN Match(q, <<SubSeq(s, i, i), SubSeq(s, i + 1, q - 2), SubSeq(s, q - 1, q - 1)>>)
          ELSE NoMatch
  ELSE NoMatch

\* line.replace(regex, ...) for one command: each expr is pushed and a
\* placeholder stands between its prefix and suffix
CaptureCommand(line, base, cmd) ==
  LET ms == AllMatches(line, [i \in 1..Len(line) |-> CommandRule(line, i, cmd)])
  IN Capture(line, ms, base, [k \in 1..Len(ms) |->
       [keep |-> TRUE, block |-> ms[k].g[2],
        before |-> ms[k].g[1], after |-> ms[k].g[3]]])

\* the blocks pushed before a capture, then those the capture c pushed
PushedAfter(blocks, c) == [text |-> c.text, blocks |-> blocks \o c.blocks]

\* if (line.includes(cmd)) { line = line.replace(regex, ...) }, where prev is
\* the line so far and the blocks pushed for it
CaptureIncluded(prev, base, cmd) ==
  IF Includes(prev.text, cmd)
  THEN PushedAfter(prev.blocks, CaptureCommand(prev.text, base + Len(prev.blocks), cmd))
  ELSE prev

\* The commands of the list that stand in the line.  A replacement puts a
\* placeholder (which holds no backslash) where an expression stood, so it
\* brings no command into the line: only these pass line.includes(cmd).
IncludedCommands(line) ==
  LET Stands(cmd) == Includes(line, cmd)
  IN SelectSeq(latexCommands, Stands)

\* the forEach over the commands cmds, in their order
CaptureEach(cmds, line, base) ==
  LET f[k \in 0..Len(cmds)] ==
        IF k = 0 THEN [text |-> line, blocks |-> <<>>]
        ELSE CaptureIncluded(f[k - 1], base, cmds[k])
  IN f[Len(cmds)]

\* latexCommands.forEach(cmd => { if (line.includes(cmd)) ... })
CaptureCommands(line, base) == CaptureEach(IncludedCommands(line), line, base)

\* /(?:ROI|Payback Period)\s*=\s*\\/ or /\\text\{(?:ROI|Payback Period)\}\s*=\s*/
IsFormulaLine(line) ==
  \E i \in 1..Len(line) :
    \/ \E label \in {Chars("ROI"), Chars("Payback Period")} :
         /\ StartsAt(line, i, label)
         /\ LET a == RunEnd(line, i + Len(label), WhiteSpace)
            IN /\ a <= Len(line)
               /\ line[a] = "="
               /\ LET b == RunEnd(line, a + 1, WhiteSpace)
                  IN b <= Len(line) /\ line[b] = "\\"
    \/ \E label \in {Chars("\\text{ROI}"), Chars("\\text{Payback Period}")} :
         /\ StartsAt(line, i, label)
         /\ LET a == RunEnd(line, i + Len(label), WhiteSpace)
            IN a <= Len(line) /\ line[a] = "="

MultiplicationSigns == {"×", "*"}

\* /\d+\s*(?:×|\*)\s*\d+/.test(line)
HasProduct(line) ==
  \E o \in 1..Len(line) :
    /\ line[o] \in MultiplicationSigns
    /\ \E a \in 1..(o - 1) :
         /\ line[a] \in Digits
         /\ \A k \in (a + 1)..(o - 1) : line[k] \in WhiteSpace
    /\ LET b == RunEnd(line, o + 1, WhiteSpace)
       IN b <= Len(line) /\ line[b] \in Digits

\* /([\w\s]+)\s*=\s*([^=]+)/g : groups leftSide and rightSide
EquationRule(s, i) ==
  IF s[i] \in WordChars \cup WhiteSpace
  THEN LET e == RunEnd(s, i, WordChars \cup WhiteSpace)
       IN IF e <= Len(s) /\ s[e] = "="
          THEN LET sp == RunEnd(s, e + 1, WhiteSpace)
                   q == RunEndNot(s, sp, {"="})
               IN IF q > sp
                  THEN Match(q, <<SubSeq(s, i, e - 1), SubSeq(s, sp, q - 1)>>)
                  ELSE IF sp > e + 1
                  THEN Match(sp, <<SubSeq(s, i, e - 1), SubSeq(s, sp - 1, sp - 1)>>)
                  ELSE NoMatch
          ELSE NoMatch
  ELSE NoMatch

\* the equation lines: `${leftSide} = ${rightSide}` is pushed for each match
CaptureEquations(line, base) ==
  IF (Includes(line, <<"×">>) \/ Includes(line, <<"=">>)) /\ HasProduct(line)
  THEN LET ms == AllMatches(line, [i \in 1..Len(line) |-> EquationRule(line, i)])
       IN Capture(line, ms, base, [k \in 1..Len(ms) |->
            [keep |-> TRUE, block |-> ms[k].g[1] \o Chars(" = ") \o ms[k].g[2],
             before |-> <<>>, after |-> <<>>]])
  ELSE [text |-> line, blocks |-> <<>>]

\* the equation step on the line c.text the command step left, with base
\* blocks in existingLatexBlocks before the line
CaptureEquationsAfter(c, base) ==
  PushedAfter(c.blocks, CaptureEquations(c.text, base + Len(c.blocks)))

\* the callback of split('\n').map(...) for one line, with base blocks
\* already in existingLatexBlocks
MarkLine(line, base) ==
  IF Includes(line, Chars("__LATEX_BLOCK_"))
  THEN [text |-> line, blocks |-> <<>>]
  ELSE IF HasLatexCommand(line) /\ IsFormulaLine(line)
  THEN [text |-> Placeholder(base), blocks |-> <<line>>]
  ELSE CaptureEquationsAfter(
         IF HasLatexCommand(line) THEN CaptureCommands(line, base)
         ELSE [text |-> line, blocks |-> <<>>], base)

\* the lines mapped so far and the blocks pushed, then the mapped line m
MappedAfter(done, m) ==
  [lines |-> Append(done.lines, m.text), blocks |-> done.blocks \o m.blocks]

\* the callback on the next line, after the lines done
MarkNextLine(done, line) == MappedAfter(done, MarkLine(line, Len(done.blocks)))

\* split('\n').map(...) on the lines ls, with blocks in existingLatexBlocks
MarkLines(ls, blocks) ==
  LET f[k \in 0..Len(ls)] ==
        IF k = 0 THEN [lines |-> <<>>, blocks |-> blocks]
        ELSE MarkNextLine(f[k - 1], ls[k])
  IN f[Len(ls)]

\* .join('\n')
JoinMarked(done) == [text |-> JoinLines(done.lines), blocks |-> done.blocks]

\* the line-by-line pass on the text and blocks d of the delimited pass
MarkFreeStanding(d) == JoinMarked(MarkLines(SplitLines(d.text), d.blocks))

\* STEP 2: the delimited expressions, then the free-standing ones line by line
MarkExpressions(s) == MarkFreeStanding(CaptureDelimited(s))

\* the branch of STEP 3 a block takes: display math or inline math
IsDisplayBlock(block) ==
  LET isEquation == Includes(block, <<"=">>)
      containsText == Includes(block, Chars("\\text"))
  IN \/ isEquation
     \/ (HasLatexCommand(block) /\ ~containsText)
     \/ (containsText /\ Includes(block, Chars("\\frac")))

\* the second argument of processedText.replace(placeholder, ...): the
\* template literals `$$${block}$$` and `$${block}$`
BlockTemplate(block) ==
  IF IsDisplayBlock(block) THEN <<"$", "$">> \o block \o <<"$", "$">>
  ELSE <<"$">> \o block \o <<"$">>

\* processedText.replace(placeholder, template): a string pattern replaces
\* its first occurrence, and the template is a replacement pattern
ReplaceFirst(s, p, template) ==
  LET ms == FirstMatch(s, [i \in 1..Len(s) |-> LiteralRule(s, i, p)])
  IN Splice(s, ms, [k \in 1..Len(ms) |-> GetSubstitution(s, ms[k], template)])

\* STEP 3: existingLatexBlocks.forEach((block, index) => ...)
FormatBlocks(s, blocks) ==
  LET f[k \in 0..Len(blocks)] ==
        IF k = 0 THEN s
        ELSE ReplaceFirst(f[k - 1], Placeholder(k - 1), BlockTemplate(blocks[k]))
  IN f[Len(blocks)]

\* the lower-case form of a character (the i flag compares letters by it)
ToLower(c) ==
  CASE c = "A" -> "a" [] c = "B" -> "b" [] c = "C" -> "c" [] c = "D" -> "d"
    [] c = "E" -> "e" [] c = "F" -> "f" [] c = "G" -> "g" [] c = "H" -> "h"
    [] c = "I" -> "i" [] c = "J" -> "j" [] c = "K" -> "k" [] c = "L" -> "l"
    [] c = "M" -> "m" [] c = "N" -> "n" [] c = "O" -> "o" [] c = "P" -> "p"
    [] c = "Q" -> "q" [] c = "R" -> "r" [] c = "S" -> "s" [] c = "T" -> "t"
    [] c = "U" -> "u" [] c = "V" -> "v" [] c = "W" -> "w" [] c = "X" -> "x"
    [] c = "Y" -> "y" [] c = "Z" -> "z" [] OTHER -> c

\* whether the literal p stands in s at position i, letters compared
\* without case
StartsAtNoCase(s, i, p) ==
  /\ i >= 1
  /\ i + Len(p) - 1 <= Len(s)
  /\ \A k \in 1..Len(p) : ToLower(s[i + k - 1]) = ToLower(p[k])

\* the end (the position after it) of \$\$[^$]+\$\$ at i, or 0
DisplayMathEnd(s, i) ==
  IF i + 1 <= Len(s) /\ s[i] = "$" /\ s[i + 1] = "$"
  THEN LET q == RunEndNot(s, i + 2, {"$"})
       IN IF q > i + 2 /\ q + 1 <= Len(s) /\ s[q + 1] = "$" THEN q + 2 ELSE 0
  ELSE 0

\* \s*([^$]*)(\$\$[^$]+\$\$) from position r: the text up to the first dollar
\* sign is skipped, and a display block must stand there.  The match of an
\* introduction that ends before r: groups prefix and formula.
FormulaAfter(s, i, r) ==
  LET d == RunEndNot(s, r, {"$"})
      e == DisplayMathEnd(s, d)
  IN IF e > 0 THEN Match(e, <<SubSeq(s, i, r - 1), SubSeq(s, d, e - 1)>>) ELSE NoMatch

\* the end of \s+word at p (no case), or 0
SpacedWordEnd(s, p, word) ==
  LET a == RunEnd(s, p, WhiteSpace)
  IN IF a > p /\ StartsAtNoCase(s, a, word) THEN a + Len(word) ELSE 0

\* /(Substituting(?:\s+in(?:\s+our)?\s+values)?:?)\s*([^$]*)(\$\$[^$]+\$\$)/gi
SubstitutingRule(s, i) ==
  IF StartsAtNoCase(s, i, Chars("Substituting"))
  THEN LET p == i + 12
           in == SpacedWordEnd(s, p, Chars("in"))
           our == IF in > 0 THEN SpacedWordEnd(s, in, Chars("our")) ELSE 0
           v1 == IF our > 0 THEN SpacedWordEnd(s, our, Chars("values")) ELSE 0
           v2 == IF in > 0 THEN SpacedWordEnd(s, in, Chars("values")) ELSE 0
           g == IF v1 > 0 THEN v1 ELSE IF v2 > 0 THEN v2 ELSE p
           r == IF g <= Len(s) /\ s[g] = ":" THEN g + 1 ELSE g
       IN FormulaAfter(s, i, r)
  ELSE NoMatch

\* /(Calculating this gives:?)\s*([^$]*)(\$\$[^$]+\$\$)/gi
CalculatingRule(s, i) ==
  IF StartsAtNoCase(s, i, Chars("Calculating this gives"))
  THEN LET g == i + 22
           r == IF g <= Len(s) /\ s[g] = ":" THEN g + 1 ELSE g
       IN FormulaAfter(s, i, r)
  ELSE NoMatch

\* /(To calculate the ROI,[^:]*:?)\s*([^$]*)(\$\$[^$]+\$\$)/gi : the greedy
\* [^:]* gives characters back until a display block is the first thing
\* delimited after the prefix
ToCalculateRule(s, i) ==
  IF StartsAtNoCase(s, i, Chars("To calculate the ROI,"))
  THEN LET p == i + 21
           c == RunEndNot(s, p, {":"})
           top == IF c <= Len(s) THEN c + 1 ELSE c
           rs == {r \in p..top : FormulaAfter(s, i, r).ok}
       IN IF rs = {} THEN NoMatch
          ELSE FormulaAfter(s, i, CHOOSE r \in rs : \A x \in rs : x <= r)
  ELSE NoMatch

\* /(Estimated ROI Percentage)\s*\n+-+\s*\n+\s*(\$\$[^$]+\$\$)/gi
EstimatedHeaderRule(s, i) ==
  IF StartsAtNoCase(s, i, Chars("Estimated ROI Percentage"))
  THEN LET p == i + 24
           w1 == RunEnd(s, p, WhiteSpace)
       IN IF w1 > p /\ s[w1 - 1] = "\n" /\ w1 <= Len(s) /\ s[w1] = "-"
          THEN LET d1 == RunEnd(s, w1, {"-"})
                   w2 == RunEnd(s, d1, WhiteSpace)
                   e == DisplayMathEnd(s, w2)
               IN IF e > 0 /\ \E k \in d1..(w2 - 1) : s[k] = "\n"
                  THEN Match(e, <<SubSeq(s, i, p - 1), SubSeq(s, w2, e - 1)>>)
                  ELSE NoMatch
          ELSE NoMatch
  ELSE NoMatch

\* STEP 4: the replacers are functions, their results literal text
SetApart(s, ms, between) ==
  Splice(s, ms, [k \in 1..Len(ms) |-> ms[k].g[1] \o between \o ms[k].g[2]])

SetApartSubstituting(s) ==
  SetApart(s, AllMatches(s, [i \in 1..Len(s) |-> SubstitutingRule(s, i)]), Chars("\n\n"))

SetApartCalculating(s) ==
  SetApart(s, AllMatches(s, [i \in 1..Len(s) |-> CalculatingRule(s, i)]), Chars("\n\n"))

SetApartToCalculate(s) ==
  SetApart(s, AllMatches(s, [i \in 1..Len(s) |-> ToCalculateRule(s, i)]), Chars("\n\n"))

SetApartEstimated(s) ==
  SetApart(s, AllMatches(s, [i \in 1..Len(s) |-> EstimatedHeaderRule(s, i)]),
           Chars("\n\n---\n\n"))

SpecialCases(s) ==
  SetApartEstimated(SetApartToCalculate(SetApartCalculating(SetApartSubstituting(s))))

\* /\$\\text\{(ROI|Payback Period)\}([^$]*=[\s\S]*?)\$/g
TextEquationRule(s, i) ==
  LET labels == {l \in {Chars("ROI"), Chars("Payback Period")} :
                   StartsAt(s, i, Chars("$\\text{") \o l \o <<"}">>)}
  IN IF labels = {} THEN NoMatch
     ELSE LET l == CHOOSE x \in labels : TRUE
              p == i + 7 + Len(l) + 1
              q == RunEndNot(s, p, {"$"})
          IN IF q <= Len(s) /\ \E k \in p..(q - 1) : s[k] = "="
             THEN Match(q + 1, <<l, SubSeq(s, p, q - 1)>>)
             ELSE NoMatch

\* /\\color\{([^}]+)\}\{([^}]+)\}/g
ColorRule(s, i) ==
  IF StartsAt(s, i, Chars("\\color{"))
  THEN LET a == RunEndNot(s, i + 7, {"}"})
       IN IF a > i + 7 /\ a + 1 <= Len(s) /\ s[a + 1] = "{"
          THEN LET b == RunEndNot(s, a + 2, {"}"})
               IN IF b > a + 2 /\ b <= Len(s)
                  THEN Match(b + 1, <<SubSeq(s, i + 7, a - 1), SubSeq(s, a + 2, b - 1)>>)
                  ELSE NoMatch
          ELSE NoMatch
  ELSE NoMatch

\* /(\$\$[^$]+\$\$)([^\s\n])/g
MathThenTextRule(s, i) ==
  LET e == DisplayMathEnd(s, i)
  IN IF e > 0 /\ e <= Len(s) /\ s[e] \notin WhiteSpace
     THEN Match(e + 1, <<SubSeq(s, i, e - 1), SubSeq(s, e, e)>>)
     ELSE NoMatch

\* /([^\s\n])(\$\$[^$]+\$\$)/g
TextThenMathRule(s, i) ==
  LET e == IF s[i] \notin WhiteSpace THEN DisplayMathEnd(s, i + 1) ELSE 0
  IN IF e > 0 THEN Match(e, <<SubSeq(s, i, i), SubSeq(s, i + 1, e - 1)>>) ELSE NoMatch

\* /^(\$\$)/gm
LineStartMathRule(s, i) ==
  IF AtLineStart(s, i) /\ StartsAt(s, i, Chars("$$"))
  THEN Match(i + 2, <<Chars("$$")>>) ELSE NoMatch

\* /(\$\$)$/gm
LineEndMathRule(s, i) ==
  IF StartsAt(s, i, Chars("$$")) /\ AtLineEnd(s, i + 2)
  THEN Match(i + 2, <<Chars("$$")>>) ELSE NoMatch

\* /\s{2,}/g
SpaceRunRule(s, i) ==
  LET e == RunEnd(s, i, WhiteSpace)
  IN IF e >= i + 2 THEN Match(e, <<>>) ELSE NoMatch

\* STEP 5: the replacements here are replacement patterns
RewrapTextEquations(s) ==
  ReplaceAll(s, [i \in 1..Len(s) |-> TextEquationRule(s, i)], Chars("$$\\text{$1}$2$$"))

RewriteColors(s) ==
  ReplaceAll(s, [i \in 1..Len(s) |-> ColorRule(s, i)], Chars("\\color{$1}{$2}"))

BreakAfterMath(s) ==
  ReplaceAll(s, [i \in 1..Len(s) |-> MathThenTextRule(s, i)], Chars("$1\n\n$2"))

BreakBeforeMath(s) ==
  ReplaceAll(s, [i \in 1..Len(s) |-> TextThenMathRule(s, i)], Chars("$1\n\n$2"))

BreakBeforeLineStartMath(s) ==
  ReplaceAll(s, [i \in 1..Len(s) |-> LineStartMathRule(s, i)], Chars("\n$1"))

BreakAfterLineEndMath(s) ==
  ReplaceAll(s, [i \in 1..Len(s) |-> LineEndMathRule(s, i)], Chars("$1\n"))

CollapseWhiteSpace(s) ==
  ReplaceAll(s, [i \in 1..Len(s) |-> SpaceRunRule(s, i)], Chars(" "))

FinalCleanup(s) ==
  LET a == RewrapTextEquations(s)
      b == RewriteColors(a)
      c == BreakAfterMath(b)
      d == BreakBeforeMath(c)
      e == BreakBeforeLineStartMath(d)
      f == BreakAfterLineEndMath(e)
      g == ReplaceLiteral(f, Chars("\\$"), Chars("$"))
  IN CollapseWhiteSpace(g)

\* the statements of the function in order: the k-th one on the value v
\* that the one before it left (STEP 2 leaves the text and
\* existingLatexBlocks)
Statement(k, v) ==
  CASE k = 1 -> CleanFormatting(v)
    [] k = 2 -> WrapTextCommands(v)
    [] k = 3 -> DelimitKnownFormulas(v)
    [] k = 4 -> DelimitBareFractions(v)
    [] k = 5 -> NormalizeDelimiters(v)
    [] k = 6 -> MarkExpressions(v)
    [] k = 7 -> FormatBlocks(v.text, v.blocks)
    [] k = 8 -> SpecialCases(v)
    [] k = 9 -> FinalCleanup(v)

\* the values vs held so far, then the value the k-th statement leaves
AfterStatement(vs, k) == Append(vs, Statement(k, vs[Len(vs)]))

\* the text t, then the value each statement leaves
StatementValues(t) ==
  LET f[k \in 0..9] == IF k = 0 THEN <<t>> ELSE AfterStatement(f[k - 1], k)
  IN f[9]

LatexTrail(vs) ==
  [cleaned |-> vs[2], texts |-> vs[3], formulas |-> vs[4], fractions |-> vs[5],
   single |-> vs[6], marked |-> vs[7].text, blocks |-> vs[7].blocks,
   formatted |-> vs[8], special |-> vs[9], final |-> vs[10]]

\* the values the function holds on its way: the text after each statement
\* and existingLatexBlocks
prepareContentLatexSteps(t) == LatexTrail(StatementValues(t))

prepareContentLatex(t) == IF t = <<>> THEN <<>> ELSE prepareContentLatexSteps(t).final

(***************************************************************************)
(* formatCurrency                                                          *)
(***************************************************************************)
\* /\$(\d*)(?=\D)/g : a dollar sign with any digit run behind it, none included
DollarDigitsRuleOptional(s, i) ==
  IF s[i] = "$"
  THEN LET e == RunEnd(s, i + 1, Digits)
       IN IF e <= Len(s) THEN Match(e, <<SubSeq(s, i + 1, e - 1)>>) ELSE NoMatch
  ELSE NoMatch

\* /\$(\d+)(?=\D)/g : the digit run is followed by a character that is no digit
DollarDigitsRule(s, i) ==
  IF s[i] = "$" /\ i + 1 <= Len(s) /\ s[i + 1] \in Digits
  THEN LET e == RunEnd(s, i + 1, Digits)
       IN IF e <= Len(s) THEN Match(e, <<SubSeq(s, i + 1, e - 1)>>) ELSE NoMatch
  ELSE NoMatch

formatCurrency(t) ==
  LET ms == AllMatches(t, [i \in 1..Len(t) |-> DollarDigitsRule(t, i)])
  IN Splice(t, ms, [k \in 1..Len(ms) |->
                      <<"$">> \o ToLocaleString(ParseDigits(ms[k].g[1]))])

(***************************************************************************)
(* Numbers                                                                 *)
(***************************************************************************)
\* A natural number of any size: its digits to the base 2^15, the lowest
\* first and the highest not zero (a double's significand has 53 bits, and
\* the exact quotients and products that are rounded to it have more).
Base == 2^15

Max(S, none) == IF S = {} THEN none ELSE CHOOSE x \in S : \A y \in S : y <= x

\* the powers of two up to the base
Powers == <<1, 2, 4, 8, 16, 32, 64, 128, 256, 512, 1024, 2048, 4096, 8192, 16384, 32768>>

Pow2(k) == Powers[k + 1]

\* the number of binary digits of each digit
DigitLength == [x \in 0..(Base - 1) |-> Cardinality({k \in 1..15 : Powers[k] <= x})]

Limb(a, i) == IF i <= Len(a) THEN a[i] ELSE 0

BigNorm(a) == SubSeq(a, 1, Max({i \in 1..Len(a) : a[i] # 0}, 0))

BigFromInt(n) ==
  BigNorm(<<n % Base, (n \div Base) % Base, n \div (Base * Base)>>)

BigLess(a, b) ==
  IF Len(a) # Len(b) THEN Len(a) < Len(b)
  ELSE LET top == Max({i \in 1..Len(a) : a[i] # b[i]}, 0)
       IN top # 0 /\ a[top] < b[top]

BigAdd(a, b) ==
  LET n == (IF Len(a) < Len(b) THEN Len(b) ELSE Len(a)) + 1
      sum[i \in 0..n] ==
        IF i = 0 THEN 0 ELSE Limb(a, i) + Limb(b, i) + sum[i - 1] \div Base
  IN BigNorm([i \in 1..n |-> sum[i] % Base])

\* a - b, for b <= a
BigSub(a, b) ==
  LET n == Len(a)
      diff[i \in 0..n] ==
        IF i = 0 THEN Base
        ELSE Base + Limb(a, i) - Limb(b, i) - (IF diff[i - 1] < Base THEN 1 ELSE 0)
  IN BigNorm([i \in 1..n |-> diff[i] % Base])

\* a * k, for k < 2^15
BigTimesLimb(a, k) ==
  LET n == Len(a) + 1
      prod[i \in 0..n] ==
        IF i = 0 THEN 0 ELSE Limb(a, i) * k + prod[i - 1] \div Base
  IN BigNorm([i \in 1..n |-> prod[i] % Base])

BigTimes(a, b) ==
  LET part[i \in 0..Len(b)] ==
        IF i = 0 THEN <<>>
        ELSE BigAdd(part[i - 1], BigNorm([j \in 1..(i - 1) |-> 0] \o BigTimesLimb(a, b[i])))
  IN part[Len(b)]

\* the number of binary digits of a
BitLength(a) ==
  IF a = <<>> THEN 0
  ELSE 15 * (Len(a) - 1) + DigitLength[a[Len(a)]]

\* a * 2^k
ShiftLeft(a, k) ==
  BigNorm([j \in 1..(k \div 15) |-> 0] \o BigTimesLimb(a, Pow2(k % 15)))

\* the whole part of a / 2^k
ShiftRight(a, k) ==
  LET w == k \div 15
      r == k % 15
  IN BigNorm([i \in 1..(IF Len(a) > w THEN Len(a) - w ELSE 0) |->
                Limb(a, i + w) \div Pow2(r) + (Limb(a, i + w + 1) % Pow2(r)) * Pow2(15 - r)])

\* the binary digit of a that counts 2^k
Bit(a, k) == (Limb(a, k \div 15 + 1) \div Pow2(k % 15)) % 2

\* a pair <<remainder, quotient>>
BigPairs == Seq(Nat) \X Seq(Nat)

\* the digit of the quotient and what it leaves of cur: the digit is the
\* highest of top, top - 1 and top - 2 whose product with b is at most cur
\* (product is top * b)
RECURSIVE TakeDigit(_, _, _, _, _)
TakeDigit(cur, b, top, product, q) ==
  IF top = 0 \/ ~BigLess(cur, product) THEN <<BigSub(cur, product), <<top>> \o q>>
  ELSE TakeDigit(cur, b, top - 1, BigSub(product, b), q)

\* the estimate of a digit of the quotient: the two highest digits of cur
\* over the highest digit of b
Estimate(cur, b) ==
  LET estimate == (Limb(cur, Len(b) + 1) * Base + Limb(cur, Len(b))) \div b[Len(b)]
  IN IF estimate < Base THEN estimate ELSE Base - 1

DigitFrom(cur, b, top, q) == TakeDigit(cur, b, top, BigTimesLimb(b, top), q)

\* one digit of the long division by b, whose highest digit is 2^14 or
\* above: <<remainder, quotient>> after the next digit of the dividend is
\* brought down.  The estimate is the digit of the quotient or up to 2 more.
DivideStep(rq, b, digit) ==
  [from \in BigPairs |->
     [cur \in Seq(Nat) |-> DigitFrom(cur, b, Estimate(cur, b), from[2])]
       [BigNorm(<<digit>> \o from[1])]][rq]

\* <<remainder, whole quotient>> of a / b, for b with its highest digit 2^14
\* or above: the digits of a above the first Len(a) - Len(b) + 1 are below b
\* and start the remainder, the others are brought down one by one
LongDivide(a, b) ==
  [ab \in BigPairs |->
     LET steps == Len(ab[1]) - Len(ab[2]) + 1
         f[i \in 1..(steps + 1)] ==
           IF i > steps THEN <<SubSeq(ab[1], steps + 1, Len(ab[1])), <<>>>>
           ELSE DivideStep(f[i + 1], ab[2], ab[1][i])
     IN IF steps < 1 THEN <<ab[1], <<>>>> ELSE f[1]][<<a, b>>]

\* the remainder of the long division brought back by the shift, and the
\* quotient
Unshifted(rq, up) == <<ShiftRight(rq[1], up), BigNorm(rq[2])>>

\* <<remainder, whole quotient>> of a / b, for b > 0: both are shifted so
\* that the highest digit of b is 2^14 or above
BigDivide(a, b) ==
  [ab \in BigPairs |->
     IF ab[2] = <<1>> THEN <<<<>>, ab[1]>>
     ELSE Unshifted(LongDivide(ShiftLeft(ab[1], 15 * Len(ab[2]) - BitLength(ab[2])),
                               ShiftLeft(ab[2], 15 * Len(ab[2]) - BitLength(ab[2]))),
                    15 * Len(ab[2]) - BitLength(ab[2]))][<<a, b>>]

\* A Number is a double: NaN, an infinity, or the finite value
\* s * m * 2^e with the sign s, the significand m (a natural number below
\* 2^53) and the exponent e.  A normal value has a significand of 53 binary
\* digits, a subnormal one the exponent -1074, and zero is s * 0 * 2^0.
NaN == [k |-> "NaN", s |-> 1, m |-> <<>>, e |-> 0]
Infinity == [k |-> "Infinity", s |-> 1, m |-> <<>>, e |-> 0]
NegativeInfinity == [k |-> "Infinity", s |-> -1, m |-> <<>>, e |-> 0]

\* the values of the kind; an operation is applied to the values of its
\* operands
Numbers == [k : {"NaN", "Infinity", "num"}, s : {1, -1}, m : Seq(Nat), e : Int]

SignedInfinity(sign) == IF sign > 0 THEN Infinity ELSE NegativeInfinity

SignedZero(sign) == [k |-> "num", s |-> sign, m |-> <<>>, e |-> 0]

Zero == SignedZero(1)

Abs(x) == IF x < 0 THEN -x ELSE x

\* the double s * m * 2^e, for m of at most 54 binary digits, the 54th
\* standing only in 2^53 (a significand that rounding carried over)
Double(sign, m, e) ==
  IF m = <<>> THEN SignedZero(sign)
  ELSE IF BitLength(m) = 54
  THEN (IF e + 1 > 971 THEN SignedInfinity(sign)
        ELSE [k |-> "num", s |-> sign, m |-> ShiftRight(m, 1), e |-> e + 1])
  ELSE IF e > 971 THEN SignedInfinity(sign)
  ELSE [k |-> "num", s |-> sign, m |-> m, e |-> e]

\* q with its lowest t binary digits rounded away, the nearest value and of
\* two equally near ones the even one; inexact tells that the digits of q
\* are followed by more that are not zero
RoundOff(q, t, inexact) ==
  LET kept == ShiftRight(q, t)
      half == t >= 1 /\ Bit(q, t - 1) = 1
      rest == inexact \/ (t >= 2 /\ ShiftLeft(ShiftRight(q, t - 1), t - 1) # q)
  IN IF half /\ (rest \/ Bit(kept, 0) = 1) THEN BigAdd(kept, <<1>>) ELSE kept

\* the double nearest to sign * (q + f) * 2^x, where the fraction f below 1
\* is zero unless inexact, and q has at least 55 binary digits
RoundWhole(sign, q, inexact, x) ==
  LET t == IF x + BitLength(q) - 53 < -1074 THEN -1074 - x ELSE BitLength(q) - 53
  IN Double(sign, RoundOff(q, t, inexact), x + t)

\* <<remainder, whole quotient>> of a * 2^k / b
ScaledQuotient(a, b, k) == BigDivide(ShiftLeft(a, k), b)

RoundScaled(sign, rq, x) == RoundWhole(sign, rq[2], rq[1] # <<>>, x)

\* the double nearest to sign * a / b * 2^x, for b > 0
RoundQuotient(sign, a, b, x) ==
  LET k == IF 55 + BitLength(b) - BitLength(a) > 0
           THEN 55 + BitLength(b) - BitLength(a) ELSE 0
  IN IF a = <<>> THEN SignedZero(sign)
     ELSE RoundScaled(sign, ScaledQuotient(a, b, k), x - k)

\* the double nearest to n/d (d > 0)
Finite(n, d) ==
  RoundQuotient(IF n < 0 THEN -1 ELSE 1, BigFromInt(Abs(n)), BigFromInt(d), 0)

IsNumber(x) ==
  /\ DOMAIN x = {"k", "s", "m", "e"}
  /\ x.k \in {"NaN", "Infinity", "num"}
  /\ x.s \in {1, -1}
  /\ x.m \in Seq(0..(Base - 1))
  /\ BitLength(x.m) <= 53
  /\ x.e \in Int

IsZero(x) == x.k = "num" /\ x.m = <<>>

Signum(x) == IF x.k = "NaN" \/ IsZero(x) THEN 0 ELSE x.s

\* x > 0
GreaterThanZero(x) == Signum(x) > 0

\* x + y of finite values that are not zero
Sum(x, y) ==
  LET e0 == IF x.e < y.e THEN x.e ELSE y.e
      a == ShiftLeft(x.m, x.e - e0)
      b == ShiftLeft(y.m, y.e - e0)
  IN IF x.e - y.e > 64 THEN x
     ELSE IF y.e - x.e > 64 THEN y
     ELSE IF x.s = y.s THEN RoundQuotient(x.s, BigAdd(a, b), <<1>>, e0)
     ELSE IF a = b THEN Zero
     ELSE IF BigLess(a, b) THEN RoundQuotient(y.s, BigSub(b, a), <<1>>, e0)
     ELSE RoundQuotient(x.s, BigSub(a, b), <<1>>, e0)

\* x + y
Plus(x, y) ==
  [xy \in Numbers \X Numbers |->
     IF xy[1].k = "NaN" \/ xy[2].k = "NaN" THEN NaN
     ELSE IF xy[1].k = "num" /\ xy[2].k = "num"
     THEN (IF IsZero(xy[1]) /\ IsZero(xy[2]) THEN SignedZero(IF xy[1].s = xy[2].s THEN xy[1].s ELSE 1)
           ELSE IF IsZero(xy[1]) THEN xy[2]
           ELSE IF IsZero(xy[2]) THEN xy[1]
           ELSE Sum(xy[1], xy[2]))
     ELSE IF xy[1].k = "Infinity" /\ xy[2].k = "Infinity"
     THEN (IF xy[1].s = xy[2].s THEN xy[1] ELSE NaN)
     ELSE IF xy[1].k = "Infinity" THEN xy[1] ELSE xy[2]][<<x, y>>]

\* x * y
Times(x, y) ==
  [xy \in Numbers \X Numbers |->
     IF xy[1].k = "NaN" \/ xy[2].k = "NaN" THEN NaN
     ELSE IF xy[1].k = "num" /\ xy[2].k = "num"
     THEN RoundQuotient(xy[1].s * xy[2].s, BigTimes(xy[1].m, xy[2].m), <<1>>, xy[1].e + xy[2].e)
     ELSE IF Signum(xy[1]) * Signum(xy[2]) = 0 THEN NaN
     ELSE SignedInfinity(xy[1].s * xy[2].s)][<<x, y>>]

\* x / y
Divide(x, y) ==
  [xy \in Numbers \X Numbers |->
     IF xy[1].k = "NaN" \/ xy[2].k = "NaN" THEN NaN
     ELSE IF xy[1].k = "num" /\ xy[2].k = "num"
     THEN (IF IsZero(xy[2])
           THEN (IF IsZero(xy[1]) THEN NaN ELSE SignedInfinity(xy[1].s * xy[2].s))
           ELSE RoundQuotient(xy[1].s * xy[2].s, xy[1].m, xy[2].m, xy[1].e - xy[2].e))
     ELSE IF xy[1].k = "Infinity" /\ xy[2].k = "Infinity" THEN NaN
     ELSE IF xy[1].k = "Infinity" THEN SignedInfinity(xy[1].s * xy[2].s)
     ELSE SignedZero(xy[1].s * xy[2].s)][<<x, y>>]

\* value || 0
OrZero(x) == IF x.k = "NaN" \/ IsZero(x) THEN Zero ELSE x

\* the number a sequence of decimal digits writes
BigFromDigits(ds) ==
  LET f[i \in 0..Len(ds)] ==
        IF i = 0 THEN <<>>
        ELSE BigAdd(BigTimesLimb(f[i - 1], 10), BigFromInt(DigitValue(ds[i])))
  IN f[Len(ds)]

BigPowerOfTen(n) ==
  LET p[i \in 0..n] == IF i = 0 THEN <<1>> ELSE BigTimesLimb(p[i - 1], 10)
  IN p[n]

\* parseFloat: white space, a sign, then the longest decimal literal (digits
\* with an optional fraction, or a fraction alone) or Infinity; what follows
\* is ignored.  The texts parsed here hold no exponent.
ParseFloat(s) ==
  LET a == RunEnd(s, 1, WhiteSpace)
      signed == a <= Len(s) /\ s[a] \in {"+", "-"}
      sign == IF signed /\ s[a] = "-" THEN -1 ELSE 1
      b == IF signed THEN a + 1 ELSE a
      e == RunEnd(s, b, Digits)
      f == IF e <= Len(s) /\ s[e] = "." THEN RunEnd(s, e + 1, Digits) ELSE e
      whole == SubSeq(s, b, e - 1)
      fraction == SubSeq(s, e + 1, f - 1)
  IN IF StartsAt(s, b, Chars("Infinity")) THEN SignedInfinity(sign)
     ELSE IF whole = <<>> /\ fraction = <<>> THEN NaN
     ELSE RoundQuotient(sign, BigFromDigits(whole \o fraction),
                        BigPowerOfTen(Len(fraction)), 0)

\* parseInt (radix 10): white space, a sign, then the digit run
ParseInt(s) ==
  LET a == RunEnd(s, 1, WhiteSpace)
      signed == a <= Len(s) /\ s[a] \in {"+", "-"}
      sign == IF signed /\ s[a] = "-" THEN -1 ELSE 1
      b == IF signed THEN a + 1 ELSE a
      e == RunEnd(s, b, Digits)
  IN IF e = b THEN NaN
     ELSE RoundQuotient(sign, BigFromDigits(SubSeq(s, b, e - 1)), <<1>>, 0)

(***************************************************************************)
(* extractChartDataFromResponse                                            *)
(***************************************************************************)
\* the end of \d+(?:\.\d+)? at q (s[q] is a digit): the digit run, and the
\* fraction when one stands behind it
DecimalEnd(s, q) ==
  LET e == RunEnd(s, q, Digits)
      f == RunEnd(s, e + 1, Digits)
  IN IF e <= Len(s) /\ s[e] = "." /\ f > e + 1 THEN f ELSE e

\* (\d+(?:\.\d+)?)% at q
PercentRule(s, q) ==
  IF s[q] \in Digits
  THEN LET e == DecimalEnd(s, q)
       IN IF e <= Len(s) /\ s[e] = "%"
          THEN Match(e + 1, <<SubSeq(s, q, e - 1)>>)
          ELSE NoMatch
  ELSE NoMatch

\* (\d+(?:\.\d+)?)\s*(?:months|years) at q, letters without case
PeriodRule(s, q) ==
  IF s[q] \in Digits
  THEN LET e == DecimalEnd(s, q)
           u == RunEnd(s, e, WhiteSpace)
       IN IF StartsAtNoCase(s, u, Chars("months")) THEN Match(u + 6, <<SubSeq(s, q, e - 1)>>)
          ELSE IF StartsAtNoCase(s, u, Chars("years")) THEN Match(u + 5, <<SubSeq(s, q, e - 1)>>)
          ELSE NoMatch
  ELSE NoMatch

\* the end of (?:,\d{3})* at e
ThousandsEnd(s, e) ==
  LET n == Len(s)
      f[i \in 1..(n + 1)] ==
        IF /\ i + 3 <= n
           /\ s[i] = ","
           /\ \A k \in 1..3 : s[i + k] \in Digits
        THEN f[i + 4]
        ELSE i
  IN f[e]

\* \$\s*(\d+(?:,\d{3})*(?:\.\d+)?) at q
AmountRule(s, q) ==
  IF s[q] = "$"
  THEN LET b == RunEnd(s, q + 1, WhiteSpace)
       IN IF b <= Len(s) /\ s[b] \in Digits
          THEN LET c == ThousandsEnd(s, RunEnd(s, b, Digits))
                   f == RunEnd(s, c + 1, Digits)
                   e == IF c <= Len(s) /\ s[c] = "." /\ f > c + 1 THEN f ELSE c
               IN Match(e, <<SubSeq(s, b, e - 1)>>)
          ELSE NoMatch
  ELSE NoMatch

\* the positions behind the word at p, on its line, where rest matches
\* (at[q] is the match of rest at q)
Behind(s, p, word, at) ==
  {q \in (p + Len(word))..Len(s) :
     /\ at[q].ok
     /\ \A j \in (p + Len(word))..(q - 1) : s[j] \notin LineTerminators}

\* the match of rest nearest behind the word at p (p = 0: the word stands
\* nowhere with rest behind it)
NearestBehind(s, p, word, at) ==
  IF p = 0 THEN NoMatch ELSE at[Least(Behind(s, p, word, at), 0)]

\* text.match(/word.*?rest/i): the first place where the word stands
\* (letters without case) and rest matches behind it on the same line, at
\* the nearest such position
KeywordMatch(s, word, at) ==
  NearestBehind(s, Least({p \in 1..Len(s) : /\ StartsAtNoCase(s, p, word)
                                           /\ Behind(s, p, word, at) # {}}, 0),
                word, at)

\* text.match(/word.*?\$\s*(\d+(?:,\d{3})*(?:\.\d+)?)/i)
AmountMatch(s, word) == KeywordMatch(s, word, [q \in 1..Len(s) |-> AmountRule(s, q)])

NotComma(c) == c # ","

\* parseFloat(match[1].replace(/,/g, ''))
ParseAmount(s) == ParseFloat(SelectSeq(s, NotComma))

\* the data the function starts from, and the chart data of a fresh page
InitialChartData ==
  [roi |-> Zero, costSavings |-> Zero, paybackPeriod |-> Zero, npv |-> Zero,
   totalCost |-> Zero, totalBenefit |-> Zero, annualBenefit |-> Zero,
   hasMonthlyData |-> FALSE, monthlyData |-> <<>>]

\* parseFloat(match?.[1]): the test of the match left out
FloatOrUnchecked(m, other) == IF m.ok THEN ParseFloat(m.g[1]) ELSE NaN

\* if (match && match[1]) parseFloat(match[1]), or else the value other
FloatOr(m, other) == IF m.ok THEN ParseFloat(m.g[1]) ELSE other

\* if (match && match[1]) parseFloat(match[1].replace(/,/g, '')), or else
\* the value other
AmountOr(m, other) == IF m.ok THEN ParseAmount(m.g[1]) ELSE other

\* data after the ROI percentage, the cost savings, the payback period and
\* the NPV are read
ExtractIndicators(t) ==
  [InitialChartData EXCEPT
     !.roi = FloatOr(KeywordMatch(t, Chars("ROI"), [q \in 1..Len(t) |-> PercentRule(t, q)]),
                     Zero),
     !.costSavings = AmountOr(AmountMatch(t, Chars("savings")), Zero),
     !.paybackPeriod =
       FloatOr(KeywordMatch(t, Chars("payback period"),
                            [q \in 1..Len(t) |-> PeriodRule(t, q)]), Zero),
     !.npv = AmountOr(AmountMatch(t, Chars("NPV")), Zero)]

\* the total cost, or the form's budget
ExtractTotalCost(data, t, budgetField) ==
  [data EXCEPT !.totalCost = AmountOr(AmountMatch(t, Chars("total cost")),
                                      OrZero(ParseAmount(budgetField)))]

\* the total benefit, or the one the ROI and the total cost give
ExtractTotalBenefit(data, t) ==
  [data EXCEPT !.totalBenefit =
     AmountOr(AmountMatch(t, Chars("total benefit")),
              IF GreaterThanZero(data.roi) /\ GreaterThanZero(data.totalCost)
              THEN Times(data.totalCost,
                         Plus(Finite(1, 1), Divide(data.roi, Finite(100, 1))))
              ELSE data.totalBenefit)]

\* the annual benefit, or the one the total benefit and the form's duration
\* give
ExtractAnnualBenefit(data, t, durationField) ==
  [data EXCEPT !.annualBenefit =
     AmountOr(AmountMatch(t, Chars("annual benefit")),
              IF GreaterThanZero(data.totalBenefit) /\ durationField # <<>>
              THEN Divide(data.totalBenefit,
                          Divide(ParseFloat(durationField), Finite(12, 1)))
              ELSE data.annualBenefit)]

\* the loop with cumulativeBenefit = monthlyBenefit in place of +=
MonthlyDataNotSummed(totalCost, monthlyBenefit, count) ==
  [i \in 1..count |->
     [month |-> i,
      cost |-> IF i = 1 THEN totalCost ELSE Zero,
      benefit |-> monthlyBenefit,
      cumulativeBenefit |-> monthlyBenefit]]

\* the loop for (let i = 1; i <= durationMonths; i++): it runs count times
MonthlyData(totalCost, monthlyBenefit, count) ==
  LET cumulativeBenefit[i \in 0..count] ==
        IF i = 0 THEN Zero ELSE Plus(cumulativeBenefit[i - 1], monthlyBenefit)
  IN [i \in 1..count |->
        [month |-> i,
         cost |-> IF i = 1 THEN totalCost ELSE Zero,
         benefit |-> monthlyBenefit,
         cumulativeBenefit |-> cumulativeBenefit[i]]]

\* the whole part of a finite value above zero
Floor(x) == IF x.e < 0 THEN ShiftRight(x.m, 0 - x.e) ELSE ShiftLeft(x.m, x.e)

\* a number below 2^31 as an integer
BigToInt(a) == Limb(a, 1) + Limb(a, 2) * Base + Limb(a, 3) * Base * Base

\* the number of times the loop runs for durationMonths (NaN: none); the
\* durations here stay below 2^31
LoopCount(durationMonths) ==
  IF durationMonths.k = "num" /\ GreaterThanZero(durationMonths)
  THEN BigToInt(Floor(durationMonths))
  ELSE 0

\* the monthly data, when the total cost and the annual benefit are above
\* zero and the form holds a duration
GenerateMonthlyData(data, durationField) ==
  IF /\ GreaterThanZero(data.totalCost)
     /\ GreaterThanZero(data.annualBenefit)
     /\ durationField # <<>>
  THEN [data EXCEPT
          !.hasMonthlyData = TRUE,
          !.monthlyData = MonthlyData(data.totalCost,
                                      Divide(data.annualBenefit, Finite(12, 1)),
                                      LoopCount(ParseInt(durationField)))]
  ELSE data

\* extractChartDataFromResponse(t) with the form's budget and duration.
\* Nothing in the try block throws on a string, so the catch is never
\* entered.
extractChartDataFromResponse(t, budgetField, durationField) ==
  GenerateMonthlyData(
    ExtractAnnualBenefit(
      ExtractTotalBenefit(ExtractTotalCost(ExtractIndicators(t), t, budgetField), t),
      t, durationField),
    durationField)

(***************************************************************************)
(* Texts                                                                   *)
(***************************************************************************)
\* all texts of at most n characters of alphabet cs
TextsUpTo(cs, n) == UNION {[1..k -> cs] : k \in 0..n}

\* the concatenation of a sequence of texts
Concat(parts) ==
  LET f[k \in 0..Len(parts)] == IF k = 0 THEN <<>> ELSE f[k - 1] \o parts[k]
  IN f[Len(parts)]

ROILine == Chars("ROI = \\frac{100}{50} \\times 100")

MaxAppLen == 4
AppAlphabet == {"a", "-", " ", "\n", "$", "1", ",", "."}
AppCorpus == {
  Chars("-item"), Chars("- item"), Chars("a\nb\nc"), Chars("ab\ncd\nef"),
  Chars("a\n\nb\nc"), Chars("$1234"), Chars("Cost: $1,234.56 total"),
  Chars("$2x$ and $x$"), Chars("$$5+3$$"), Chars("--a\n-b\n- c"), ROILine }
AppTexts == TextsUpTo(AppAlphabet, MaxAppLen) \cup AppCorpus

MaxCurrencyLen == 4
CurrencyAlphabet == {"$", "1", "0", "a", ",", " "}
CurrencyCorpus == {
  Chars("$1234"), Chars("$1234567"), Chars("$1234 "), Chars("$1234567."),
  Chars("Cost: $1234"), Chars("Cost: $1234 now"), Chars("$1234567 and $999"),
  Chars("\\$1234\n\n\\$50000."), Chars("$0012 ") }
CurrencyTexts == TextsUpTo(CurrencyAlphabet, MaxCurrencyLen) \cup CurrencyCorpus

NoTrail == [bullets |-> <<>>, currency |-> <<>>, breaks |-> <<>>]

NoLatexTrail ==
  [cleaned |-> <<>>, texts |-> <<>>, formulas |-> <<>>, fractions |-> <<>>,
   single |-> <<>>, marked |-> <<>>, blocks |-> <<>>, formatted |-> <<>>,
   special |-> <<>>, final |-> <<>>]

(***************************************************************************)
(* The page: the state of App.tsx and of ChatInterface.tsx                 *)
(***************************************************************************)
\* the value undefined, told from every text by its element, which is no
\* single character
Undefined == <<"undefined">>

\* the truthiness of a string-valued expression
Truthy(v) == v # <<>> /\ v # Undefined

\* the characters of code 32 to 126 in the order of their codes
Ascii ==
  <<" ", "!", "\"", "#", "$", "%", "&", "'", "(", ")", "*", "+", ",", "-", ".", "/",
    "0", "1", "2", "3", "4", "5", "6", "7", "8", "9", ":", ";", "<", "=", ">", "?", "@",
    "A", "B", "C", "D", "E", "F", "G", "H", "I", "J", "K", "L", "M",
    "N", "O", "P", "Q", "R", "S", "T", "U", "V", "W", "X", "Y", "Z",
    "[", "\\", "]", "^", "_", "grave accent",
    "a", "b", "c", "d", "e", "f", "g", "h", "i", "j", "k", "l", "m",
    "n", "o", "p", "q", "r", "s", "t", "u", "v", "w", "x", "y", "z",
    "{", "|", "}", "~">>

\* the code of each of these characters, and of the line feed
CharCodes ==
  [c \in {Ascii[i] : i \in 1..Len(Ascii)} \cup {"\n"} |->
     IF c = "\n" THEN 10 ELSE 31 + (CHOOSE i \in 1..Len(Ascii) : Ascii[i] = c)]

\* contextString.charCodeAt(i)
charCodeAt(c) == CharCodes[c]

\* the 32-bit integers, held as <<their high 16 bits, their low 16 bits>>
Int32 == (0..65535) \X (0..65535)

\* hash = ((hash << 5) - hash) + char; hash = hash & hash : 31 * hash + char
\* in 32 bits
HashStep(h, code) ==
  [x \in Int32 |->
     <<(x[1] * 31 + (x[2] * 31 + code) \div 65536) % 65536,
       (x[2] * 31 + code) % 65536>>][h]

\* the loop of calculateContextVersion over the characters of s, from h
HashFrom(h, s) ==
  LET f[i \in 0..Len(s)] == IF i = 0 THEN h ELSE HashStep(f[i - 1], charCodeAt(s[i]))
  IN f[Len(s)]

\* the loop over the eight characters of s from position a on
HashNext(h, s, a) ==
  [x \in Int32 |->
     HashFrom(x, SubSeq(s, a, IF a + 7 < Len(s) THEN a + 7 ELSE Len(s)))][h]

\* the loop over all of s, eight characters at a time
Hash(s) ==
  LET g[k \in 0..((Len(s) + 7) \div 8)] ==
        IF k = 0 THEN <<0, 0>> ELSE HashNext(g[k - 1], s, 8 * k - 7)
  IN g[(Len(s) + 7) \div 8]

\* customFields.map(field => `${field.title}:${field.value}`).join('|')
JoinFields(fields) ==
  LET f[k \in 0..Len(fields)] ==
        IF k = 0 THEN <<>>
        ELSE f[k - 1] \o (IF k = 1 THEN <<>> ELSE <<"|">>)
               \o fields[k].title \o <<":">> \o fields[k].value
  IN f[Len(fields)]

\* response ? response.substring(0, 100) : ''
ResponseHead(resp) ==
  IF Truthy(resp) THEN SubSeq(resp, 1, IF Len(resp) < 100 THEN Len(resp) ELSE 100)
  ELSE <<>>

contextString(b, e, d, fields, resp) ==
  b \o <<"|">> \o e \o <<"|">> \o d \o <<"|">> \o JoinFields(fields) \o <<"|">>
    \o ResponseHead(resp)

\* the context version: hash.toString() names each 32-bit value by its own
\* numeral, and the version is only ever compared with another version, so
\* the version is held as the 32-bit value
calculateContextVersion(b, e, d, fields, resp) ==
  Hash(contextString(b, e, d, fields, resp))

\* the upper-case form of a letter
ToUpper(c) ==
  CASE c = "a" -> "A" [] c = "b" -> "B" [] c = "c" -> "C" [] c = "d" -> "D"
    [] c = "e" -> "E" [] c = "f" -> "F" [] c = "g" -> "G" [] c = "h" -> "H"
    [] c = "i" -> "I" [] c = "j" -> "J" [] c = "k" -> "K" [] c = "l" -> "L"
    [] c = "m" -> "M" [] c = "n" -> "N" [] c = "o" -> "O" [] c = "p" -> "P"
    [] c = "q" -> "Q" [] c = "r" -> "R" [] c = "s" -> "S" [] c = "t" -> "T"
    [] c = "u" -> "U" [] c = "v" -> "V" [] c = "w" -> "W" [] c = "x" -> "X"
    [] c = "y" -> "Y" [] c = "z" -> "Z" [] OTHER -> c

\* key.charAt(0).toUpperCase() + key.slice(1)
Capitalize(key) == IF key = <<>> THEN <<>> ELSE <<ToUpper(key[1])>> \o Tail(key)

\* value.replace(/[^0-9.]/g, '')
KeepNumeric(value) == SelectSeq(value, LAMBDA c : c \in Digits \cup {"."})

\* one of the three loops over Object.entries that fill a standard field:
\* the numeric value of the first entry whose key includes one of the words
\* and whose numeric value is not empty (the loop breaks there), <<>> when
\* there is none and nothing is set
FirstNumericValue(entries, words) ==
  LET hits == {i \in 1..Len(entries) :
                 /\ \E w \in words : Includes(entries[i][1], w)
                 /\ KeepNumeric(entries[i][2]) # <<>>}
  IN IF hits = {} THEN <<>> ELSE KeepNumeric(entries[Least(hits, 0)][2])

\* the keys that make a financial entry a custom field
FinancialWords ==
  {Chars("cost"), Chars("rate"), Chars("price"), Chars("saving"),
   Chars("revenue"), Chars("benefit")}

IsFinancialEntry(entry) ==
  /\ ~Includes(entry[1], Chars("budget"))
  /\ \E w \in FinancialWords : Includes(entry[1], w)
  /\ KeepNumeric(entry[2]) # <<>>

\* the custom fields pushed for one document (their ids, made of the clock
\* and the key, are left out)
DerivedFields(entries) ==
  LET kept == SelectSeq(entries, IsFinancialEntry)
  IN [k \in 1..Len(kept) |->
        [title |-> Capitalize(kept[k][1]), value |-> KeepNumeric(kept[k][2])]]

\* the value a state slot has after a run of set calls, <<>> standing for a
\* document that made no call: the value of the last call, the value the
\* slot had when there was no call
LastSet(calls, current) ==
  LET made == {i \in 1..Len(calls) : calls[i] # <<>>}
  IN IF made = {} THEN current
     ELSE calls[CHOOSE i \in made : \A j \in made : j <= i]

\* populateFormFieldsFromDocuments(results), run by the render whose budget,
\* employees, duration and customFields are closure, on the form current:
\* the form it leaves
populateFormFieldsFromDocuments(results, closure, current) ==
  [budget |->
     IF closure.budget # <<>> THEN current.budget
     ELSE LastSet([k \in 1..Len(results) |->
                     FirstNumericValue(results[k].financial_data, {Chars("budget")})],
                  current.budget),
   employees |->
     IF closure.employees # <<>> THEN current.employees
     ELSE LastSet([k \in 1..Len(results) |->
                     FirstNumericValue(results[k].key_metrics,
                                       {Chars("employee"), Chars("headcount")})],
                  current.employees),
   duration |->
     IF closure.duration # <<>> THEN current.duration
     ELSE LastSet([k \in 1..Len(results) |->
                     FirstNumericValue(results[k].dates, {Chars("duration")})],
                  current.duration),
   customFields |->
     LastSet([k \in 1..Len(results) |->
                IF DerivedFields(results[k].financial_data) = <<>> THEN <<>>
                ELSE <<closure.customFields
                         \o DerivedFields(results[k].financial_data)>>],
             <<current.customFields>>)[1]]

\* what the document service extracts from each file of the user
Extracted(file) ==
  IF file = "a.pdf"
  THEN [filename |-> file, error |-> <<>>,
        financial_data |-> <<<<Chars("budget"), Chars("$2,000")>>,
                             <<Chars("annual cost"), Chars("$100")>>>>,
        key_metrics |-> <<<<Chars("employees"), Chars("5 people")>>>>,
        dates |-> <<<<Chars("duration"), Chars("12 months")>>>>]
  ELSE [filename |-> file, error |-> <<>>,
        financial_data |-> <<<<Chars("savings rate"), Chars("7%")>>>>,
        key_metrics |-> <<>>,
        dates |-> <<>>]

\* a document the service could not read, and the placeholder processDocuments
\* builds for a file when the request failed
Failed(file, message) ==
  [filename |-> file, error |-> message,
   financial_data |-> <<>>, key_metrics |-> <<>>, dates |-> <<>>]

\* the bodies of a successful /document_intelligence response for the files
\* sent: every file read, no file read, or a body without results
UploadBodies(sent) ==
  {[results |-> [k \in 1..Len(sent) |-> Extracted(sent[k])]],
   [results |-> [k \in 1..Len(sent) |-> Failed(sent[k], Chars("unreadable"))]],
   [message |-> Chars("ok")]}

\* the bodies of a successful /calculate_roi response: an analysis, or a body
\* without the response field
CalculationBodies ==
  {[response |-> Chars("ROI of 25% with total cost $1,000")],
   [message |-> Chars("ok")]}

\* the bodies of a successful /ask response to a request sent for session s:
\* an answer with the session identifier echoed, rotated or left out, or a
\* body without the answer field
RotatedSession(s) == 0 - s
AskBodies(s) ==
  {[answer |-> "answer", sessionId |-> s],
   [answer |-> "answer", sessionId |-> RotatedSession(s)],
   [answer |-> "answer"],
   [sessionId |-> s]}

\* the messages of the chat panel (their ids and timestamps are left out)
Message(sender, content) == [sender |-> sender, content |-> content]
Greeting == Message("assistant", "greeting")
NewAnalysisGreeting == Message("assistant", "new analysis")
FallbackMessage == Message("assistant", "fallback")
ErrorMessage == Message("assistant", "error")
RestoredMessage == Message("assistant", "restored")

\* the value null of the chat's error (no error text reads so)
Null == "null"

\* string.trim()
Trim(s) ==
  LET ink == {i \in 1..Len(s) : s[i] \notin WhiteSpace}
  IN IF ink = {} THEN <<>>
     ELSE SubSeq(s, Least(ink, 0), CHOOSE i \in ink : \A j \in ink : j <= i)

\* the state of the two components once mounted and their mount effects run:
\* the first context version recorded, a session identifier generated, and
\* the health check issued by the first run of the session effect and by
\* its second run, which the new identifier causes
Mounted ==
  /\ employees = <<>>
  /\ customFields = <<>>
  /\ files = <<>>
  /\ response = <<>>
  /\ loading = FALSE
  /\ documentLoading = FALSE
  /\ extractedData = <<>>
  /\ toasts = {}
  /\ uploads = <<>>
  /\ calculations = <<>>
  /\ lastUpload = <<>>
  /\ lastCalculation = <<>>
  /\ messages = <<Greeting>>
  /\ inputValue = <<>>
  /\ isLoading = FALSE
  /\ sessionId = 1
  /\ generated = 1
  /\ serviceStatus = "checking"
  /\ error = Null
  /\ currentContextVersion = calculateContextVersion(<<>>, <<>>, <<>>, <<>>, <<>>)
  /\ isNewSession = FALSE
  /\ asks = <<>>
  /\ timers = 0
  /\ healthChecks = 2
  /\ issued = 0
  /\ retries = 0
  /\ actions = 0

(***************************************************************************)
(* The response panel of App.tsx                                           *)
(***************************************************************************)
InitApp ==
  /\ text \in AppTexts
  /\ pc = "raw"
  /\ processedText = <<>>
  /\ trail = NoTrail
  /\ rendered = <<>>
  /\ again = <<>>
  /\ budget = <<>>
  /\ duration = <<>>
  /\ chartData = InitialChartData
  /\ Mounted

\* {formatCurrency(prepareContent(response))}
RenderResponse ==
  /\ pc = "raw"
  /\ processedText' = prepareContent(text)
  /\ trail' = (IF text = <<>> THEN NoTrail ELSE prepareContentSteps(text))
  /\ rendered' = formatCurrency(prepareContent(text))
  /\ pc' = "rendered"
  /\ UNCHANGED <<text, again, form, page>>

\* prepareContent applied to its own result
PrepareAgain ==
  /\ pc = "rendered"
  /\ again' = prepareContent(processedText)
  /\ pc' = "again"
  /\ UNCHANGED <<text, processedText, trail, rendered, form, page>>

NextApp == RenderResponse \/ PrepareAgain

SpecApp == InitApp /\ [][NextApp]_vars

(***************************************************************************)
(* formatCurrency on a text of its own                                     *)
(***************************************************************************)
InitCurrency ==
  /\ text \in CurrencyTexts
  /\ pc = "raw"
  /\ processedText = <<>>
  /\ trail = NoTrail
  /\ rendered = <<>>
  /\ again = <<>>
  /\ budget = <<>>
  /\ duration = <<>>
  /\ chartData = InitialChartData
  /\ Mounted

FormatCurrency ==
  /\ pc = "raw"
  /\ rendered' = formatCurrency(text)
  /\ pc' = "rendered"
  /\ UNCHANGED <<text, processedText, trail, again, form, page>>

FormatAgain ==
  /\ pc = "rendered"
  /\ again' = formatCurrency(rendered)
  /\ pc' = "again"
  /\ UNCHANGED <<text, processedText, trail, rendered, form, page>>

NextCurrency == FormatCurrency \/ FormatAgain

SpecCurrency == InitCurrency /\ [][NextCurrency]_vars

(***************************************************************************)
(* The chat panel with the LaTeX-aware prepareContent                      *)
(***************************************************************************)
MaxChatParts == 3
ChatParts == {
  Chars("a"), Chars(" "), Chars("\n"), Chars("$"), Chars("="), Chars("-"),
  Chars("2*3"), Chars("\\alpha"), Chars("\\"), Chars("{"), Chars("text-") }
ChatCorpus == {
  ROILine,
  Chars("$a=b$"), Chars("$x$"), Chars("$$x$$"), Chars("$$$$x$$$$"),
  Chars("x \\pi y \\alpha z"), Chars("x \\alpha y \\pi z"),
  Chars("\\text{ROI} = \\frac{a}{b} \\times 100"),
  Chars("$$\\text{ROI} = \\frac{a}{b} \\times 100$$"),
  Chars("Total = 2 * 3"), Chars("context-free text"), Chars("a\\{b\\}"),
  Chars("\\foo{x}}"), Chars("a $ b"), Chars("-item"), Chars("a\nb"),
  Chars("Cost: $1,234 and $5"), Chars("a  =  b") }
ChatTexts ==
  {Concat(ps) : ps \in UNION {[1..k -> ChatParts] : k \in 0..MaxChatParts}}
    \cup ChatCorpus

InitChat ==
  /\ text \in ChatTexts
  /\ pc = "raw"
  /\ processedText = <<>>
  /\ trail = NoLatexTrail
  /\ rendered = <<>>
  /\ again = <<>>
  /\ budget = <<>>
  /\ duration = <<>>
  /\ chartData = InitialChartData
  /\ Mounted

\* {formatCurrency(prepareContent(message.content))}
RenderMessage ==
  /\ pc = "raw"
  /\ processedText' = prepareContentLatex(text)
  /\ trail' = (IF text = <<>> THEN NoLatexTrail ELSE prepareContentLatexSteps(text))
  /\ rendered' = formatCurrency(prepareContentLatex(text))
  /\ pc' = "rendered"
  /\ UNCHANGED <<text, again, form, page>>

\* prepareContent applied to its own result
PrepareAgainLatex ==
  /\ pc = "rendered"
  /\ again' = prepareContentLatex(processedText)
  /\ pc' = "again"
  /\ UNCHANGED <<text, processedText, trail, rendered, form, page>>

NextChat == RenderMessage \/ PrepareAgainLatex

SpecChat == InitChat /\ [][NextChat]_vars

(***************************************************************************)
(* A response of /calculate_roi: its chart data are extracted, and its     *)
(* text is shown by the response panel or, as a message, by the chat panel *)
(***************************************************************************)
MaxResponseParts == 3
ResponseParts == {
  Chars("a"), Chars(" "), Chars("{"), Chars("$"), Chars("\\foo"), Chars("ROI 5%") }
ResponseCorpus == {
  Chars("\\foo{x $ y"), Chars("}{ \\begin{"), Chars("ROI of 25%"),
  Chars("total cost $10,000 and total benefit $15,000"),
  Chars("Total Cost: $ 1,2345.50\nroi 12.5 %, 40%"),
  Chars("payback period of 1.5 Years"), Chars("payback period 18months"),
  Chars("NPV $2,500.75"), Chars("savings\n$100"), Chars("savings $ 100"),
  Chars("annual benefit $6,000 total cost $12,000") }
ResponseTexts ==
  {Concat(ps) : ps \in UNION {[1..k -> ResponseParts] : k \in 0..MaxResponseParts}}
    \cup ResponseCorpus

\* the form's budget and duration: calculateROI sends the form only when
\* its fields are not blank
FormValues == {
  [budget |-> Chars("2000"), duration |-> Chars("12")],
  [budget |-> Chars("2000"), duration |-> Chars("0")],
  [budget |-> Chars("."), duration |-> Chars(".")] }

InitResponse ==
  /\ text \in ResponseTexts
  /\ pc = "raw"
  /\ processedText = <<>>
  /\ trail = NoTrail
  /\ rendered = <<>>
  /\ again = <<>>
  /\ \E values \in FormValues : budget = values.budget /\ duration = values.duration
  /\ chartData = InitialChartData
  /\ Mounted

\* setChartData(extractChartDataFromResponse(response.data.response))
ExtractChartData ==
  /\ pc = "raw"
  /\ chartData' = extractChartDataFromResponse(text, budget, duration)
  /\ UNCHANGED <<text, pc, processedText, trail, rendered, again, budget, duration, page>>

NextResponse == ExtractChartData \/ RenderResponse \/ RenderMessage

SpecResponse == InitResponse /\ [][NextResponse]_vars

(***************************************************************************)
(* extractChartDataFromResponse on a response that states its figures, with *)
(* the budget and duration the form holds when the response arrives         *)
(***************************************************************************)
MaxChartParts == 2

\* a percentage as a response writes it: a sign, the whole part and the
\* decimal places, with the number it stands for
RoiNumerals ==
  {[sign |-> sign, whole |-> whole, places |-> f[1], n |-> f[2], d |-> f[3]] :
     sign \in {1, -1}, whole \in {0, 7, 25, 100},
     f \in {<<<<>>, 0, 1>>, <<Chars("5"), 5, 10>>, <<Chars("25"), 25, 100>>}}

Numeral(num) ==
  (IF num.sign < 0 THEN <<"-">> ELSE <<>>)
    \o NumberToChars(num.whole)
    \o (IF num.places = <<>> THEN <<>> ELSE <<".">> \o num.places)

NumeralValue(num) == Finite(num.sign * (num.whole * num.d + num.n), num.d)

\* prose that holds no marker of any figure
ChartFillers == {<<>>, Chars("The "), Chars(" overall."), Chars("\nDone")}

RoiStatement(num) == Chars("ROI of ") \o Numeral(num) \o <<"%">>

RoiTexts ==
  {before \o RoiStatement(num) \o after :
     before \in ChartFillers, after \in ChartFillers, num \in RoiNumerals}

ChartParts == {
  Chars("ROI of 25%"), Chars("total cost $10,000"), Chars("total benefit $15,000"),
  Chars("annual benefit $6,000"), Chars("savings $100"),
  Chars("payback period 18 months"), Chars("NPV $2,500"),
  Chars(" and "), Chars("\n") }

ChartTexts ==
  {Concat(ps) : ps \in UNION {[1..k -> ChartParts] : k \in 0..MaxChartParts}}
    \cup RoiTexts

\* the form's budget and duration when calculateROI was called: it sends the
\* request only when they are not blank; the fields hold what a number input
\* gives or the digits and points taken from a document
ChartBudgets == {Chars("2000"), Chars("500"), Chars(".")}
ChartDurations == {Chars("12"), Chars("9"), Chars("0"), Chars(".")}

InitChart ==
  /\ text \in ChartTexts
  /\ pc = "raw"
  /\ processedText = <<>>
  /\ trail = NoTrail
  /\ rendered = <<>>
  /\ again = <<>>
  /\ budget \in ChartBudgets
  /\ duration \in ChartDurations
  /\ chartData = InitialChartData
  /\ Mounted

\* const chartData = extractChartDataFromResponse(response.data.response);
\* setChartData(chartData)
ExtractChart ==
  /\ pc = "raw"
  /\ chartData' = extractChartDataFromResponse(text, budget, duration)
  /\ pc' = "charted"
  /\ UNCHANGED <<text, processedText, trail, rendered, again, budget, duration, page>>

NextChart == ExtractChart

SpecChart == InitChart /\ [][NextChart]_vars

(***************************************************************************)
(* extractChartDataFromResponse on a response that states the total cost   *)
(* and the total benefit, with a form that holds a number of months        *)
(***************************************************************************)
MaxMonths == 12

\* figures above zero, written as a response writes them
SeriesCosts == {Chars("10,000"), Chars("2,500.50"), Chars("1")}
SeriesBenefits ==
  {Chars("15,000"), Chars("12,345.67"), Chars("100"), Chars("7"), Chars("1"), Chars("0.1")}

\* a response that states the total cost c and the total benefit b, in
\* either order, and no annual benefit
SeriesText(c, b, costFirst) ==
  IF costFirst
  THEN Chars("Total cost: $") \o c \o Chars("\nTotal benefit: $") \o b
  ELSE Chars("The total benefit is $") \o b \o Chars(" and the total cost is $") \o c

SeriesTexts ==
  {SeriesText(c, b, costFirst) :
     c \in SeriesCosts, b \in SeriesBenefits, costFirst \in BOOLEAN}

\* the duration field holding the whole number d
SeriesDurations == {NumberToChars(d) : d \in 1..MaxMonths}

InitSeries ==
  /\ text \in SeriesTexts
  /\ pc = "raw"
  /\ processedText = <<>>
  /\ trail = NoTrail
  /\ rendered = <<>>
  /\ again = <<>>
  /\ budget = Chars("2000")
  /\ duration \in SeriesDurations
  /\ chartData = InitialChartData
  /\ Mounted

\* const chartData = extractChartDataFromResponse(response.data.response);
\* setChartData(chartData)
ExtractSeries ==
  /\ pc = "raw"
  /\ chartData' = extractChartDataFromResponse(text, budget, duration)
  /\ pc' = "charted"
  /\ UNCHANGED <<text, processedText, trail, rendered, again, budget, duration, page>>

NextSeries == ExtractSeries

SpecSeries == InitSeries /\ [][NextSeries]_vars

(***************************************************************************)
(* The page at work: the form, the uploads, the calculation and the chat   *)
(***************************************************************************)
MaxActions == 3

\* what the user can type into the budget, employees and duration inputs
BudgetEntries == {<<>>, Chars("2000")}
EmployeesEntries == {<<>>, Chars("5")}
DurationEntries == {<<>>, Chars("12")}
\* the files the user can pick in the file dialog
FileSelections == {<<>>, <<"a.pdf">>, <<"b.pdf">>}
\* what the user can type into the chat input
ChatEntries == {Chars(" "), Chars("q")}

InitPage ==
  /\ text = <<>>
  /\ pc = "raw"
  /\ processedText = <<>>
  /\ trail = NoTrail
  /\ rendered = <<>>
  /\ again = <<>>
  /\ budget = <<>>
  /\ duration = <<>>
  /\ chartData = InitialChartData
  /\ Mounted

\* what is in flight when the i-th of it has come back, in the order of issue
Without(inFlight, i) ==
  [k \in 1..(Len(inFlight) - 1) |-> IF k < i THEN inFlight[k] ELSE inFlight[k + 1]]

\* one more action of the user
UserActs == actions < MaxActions /\ actions' = actions + 1

\* a context version effect that takes every change for a drastic one
isDrasticChangeAlways(roiResults, shown) == TRUE

\* isDrasticChange of the context version effect
isDrasticChange(roiResults, shown) ==
  (roiResults = <<>> /\ Len(shown) > 2) \/ Len(shown) > 10

\* the context version effect of ChatInterface.tsx, run after the render
\* that follows a change of the form or of the response
TrackContext ==
  LET version == calculateContextVersion(budget', employees', duration',
                                         customFields', response')
  IN IF version # currentContextVersion
     THEN /\ currentContextVersion' = version
          /\ IF currentContextVersion # <<>> /\ isDrasticChange(response', messages)
             THEN /\ sessionId' = generated + 1
                  /\ generated' = generated + 1
                  /\ isNewSession' = TRUE
                  /\ messages' = <<NewAnalysisGreeting>>
                  \* the session effect runs again for the new identifier
                  /\ healthChecks' = healthChecks + 1
                  /\ issued' = 0
             ELSE UNCHANGED <<sessionId, generated, isNewSession, messages,
                              healthChecks, issued>>
     ELSE UNCHANGED <<currentContextVersion, sessionId, generated, isNewSession,
                      messages, healthChecks, issued>>

\* onChange of the budget input: setBudget(e.target.value)
ChangeBudget(value) ==
  /\ UserActs
  /\ value # budget
  /\ budget' = value
  /\ toasts' = {}
  /\ UNCHANGED <<duration, chartData, employees, customFields, files, response,
                 loading, documentLoading, extractedData, uploads, calculations,
                 lastUpload, lastCalculation>>
  /\ TrackContext
  /\ UNCHANGED <<panel, chatRest>>

\* onChange of the employees input
ChangeEmployees(value) ==
  /\ UserActs
  /\ value # employees
  /\ employees' = value
  /\ toasts' = {}
  /\ UNCHANGED <<budget, duration, chartData, customFields, files, response,
                 loading, documentLoading, extractedData, uploads, calculations,
                 lastUpload, lastCalculation>>
  /\ TrackContext
  /\ UNCHANGED <<panel, chatRest>>

\* onChange of the duration input
ChangeDuration(value) ==
  /\ UserActs
  /\ value # duration
  /\ duration' = value
  /\ toasts' = {}
  /\ UNCHANGED <<budget, chartData, employees, customFields, files, response,
                 loading, documentLoading, extractedData, uploads, calculations,
                 lastUpload, lastCalculation>>
  /\ TrackContext
  /\ UNCHANGED <<panel, chatRest>>

\* handleFileChange with processDocuments up to its await: the request keeps
\* the files and the form of the render it was issued by
handleFileChange(selection) ==
  /\ UserActs
  /\ files' = selection
  /\ toasts' = {}
  /\ IF selection # <<>>
     THEN /\ documentLoading' = TRUE
          /\ uploads' = Append(uploads,
               [files |-> selection, budget |-> budget, employees |-> employees,
                duration |-> duration, customFields |-> customFields])
     ELSE UNCHANGED <<documentLoading, uploads>>
  /\ UNCHANGED <<budget, duration, chartData, employees, customFields, response,
                 loading, extractedData, calculations, lastUpload, lastCalculation>>
  /\ UNCHANGED <<panel, chatRest, tracked>>

\* the placeholder results processDocuments builds in its catch block
errorResults(sent, message) == [k \in 1..Len(sent) |-> Failed(sent[k], message)]

\* a processDocuments that drops a response in which a document has an error
ResultsOfCleanResponses(body, sent) ==
  IF "results" \in DOMAIN body /\ SelectSeq(body.results, LAMBDA doc : doc.error = <<>>) = body.results
  THEN body.results
  ELSE extractedData

\* what processDocuments leaves in extractedData for a response body
ResultsShown(body, sent) ==
  IF "results" \in DOMAIN body THEN body.results
  ELSE errorResults(sent, Chars("Cannot read properties of undefined"))

\* response.data.results.filter(doc => !doc.error)
validResults(results) == SelectSeq(results, LAMBDA doc : doc.error = <<>>)

\* the form processDocuments leaves when the body arrives
FormAfter(body, u) ==
  IF "results" \in DOMAIN body /\ validResults(body.results) # <<>>
  THEN populateFormFieldsFromDocuments(validResults(body.results), u,
         [budget |-> budget, employees |-> employees, duration |-> duration,
          customFields |-> customFields])
  ELSE [budget |-> budget, employees |-> employees, duration |-> duration,
        customFields |-> customFields]

\* processDocuments from its await on, the request fulfilled with the body
UploadResolves(i, body) ==
  /\ i \in DOMAIN uploads
  /\ body \in UploadBodies(uploads[i].files)
  /\ uploads' = Without(uploads, i)
  /\ extractedData' = ResultsShown(body, uploads[i].files)
  /\ toasts' = (IF "results" \notin DOMAIN body THEN {"Failed to process documents"}
                ELSE IF validResults(body.results) # body.results
                     THEN {"Processed, but some had errors"}
                     ELSE {"Successfully processed"})
  /\ budget' = FormAfter(body, uploads[i]).budget
  /\ employees' = FormAfter(body, uploads[i]).employees
  /\ duration' = FormAfter(body, uploads[i]).duration
  /\ customFields' = FormAfter(body, uploads[i]).customFields
  /\ documentLoading' = FALSE
  /\ lastUpload' = <<[body |-> body, files |-> uploads[i].files]>>
  /\ UNCHANGED <<chartData, files, response, loading, calculations,
                 lastCalculation, actions>>
  /\ TrackContext
  /\ UNCHANGED <<panel, chatRest>>

\* processDocuments from its await on, the request rejected
UploadRejects(i) ==
  /\ i \in DOMAIN uploads
  /\ uploads' = Without(uploads, i)
  /\ extractedData' = errorResults(uploads[i].files, Chars("Network Error"))
  /\ toasts' = {"Failed to process documents"}
  /\ documentLoading' = FALSE
  /\ lastUpload' = <<[files |-> uploads[i].files]>>
  /\ UNCHANGED <<budget, duration, chartData, employees, customFields, files,
                 response, loading, calculations, lastCalculation, actions>>
  /\ UNCHANGED <<panel, chatRest, tracked>>

\* a Calculate button that is never disabled
CalculateAlwaysEnabled == TRUE

\* disabled={loading} of the Calculate button
CalculateEnabled == ~loading

\* a validation that does not look at the employees
RequiredFieldsButEmployees == ~(Trim(budget) = <<>> \/ Trim(duration) = <<>>)

\* the validation of calculateROI passes:
\* !(!budget.trim() || !employees.trim() || !duration.trim())
RequiredFieldsFilled ==
  ~(Trim(budget) = <<>> \/ Trim(employees) = <<>> \/ Trim(duration) = <<>>)

\* calculateROI up to its await: the validation, and the request, which
\* keeps the budget and the duration of the render it was issued by
calculateROI ==
  /\ UserActs
  /\ CalculateEnabled
  /\ IF ~RequiredFieldsFilled
     THEN /\ toasts' = {"Please fill in all required fields!"}
          /\ UNCHANGED <<loading, calculations>>
     ELSE /\ toasts' = {}
          /\ loading' = TRUE
          /\ calculations' = Append(calculations,
               [budget |-> budget, duration |-> duration])
  /\ UNCHANGED <<budget, duration, chartData, employees, customFields, files,
                 response, documentLoading, extractedData, uploads, lastUpload,
                 lastCalculation>>
  /\ UNCHANGED <<panel, chatRest, tracked>>

\* extractChartDataFromResponse on the responses the page receives and the
\* values its form offers, computed once
PageCharts ==
  [t \in {body.response : body \in {b \in CalculationBodies : "response" \in DOMAIN b}},
   budgetField \in BudgetEntries, durationField \in DurationEntries |->
     extractChartDataFromResponse(t, budgetField, durationField)]

\* extractChartDataFromResponse(t) with the form's budget and duration
ChartOf(t, budgetField, durationField) ==
  IF <<t, budgetField, durationField>> \in DOMAIN PageCharts
  THEN PageCharts[t, budgetField, durationField]
  ELSE extractChartDataFromResponse(t, budgetField, durationField)

\* calculateROI from its await on, the request fulfilled with the body:
\* response.data.response is stored as it is, and extractChartDataFromResponse
\* returns its initial data from the catch block when it is undefined
CalculationResolves(i, body) ==
  /\ i \in DOMAIN calculations
  /\ body \in CalculationBodies
  /\ calculations' = Without(calculations, i)
  /\ response' = (IF "response" \in DOMAIN body THEN body.response ELSE Undefined)
  /\ chartData' = (IF "response" \in DOMAIN body
                   THEN ChartOf(body.response,
                                calculations[i].budget, calculations[i].duration)
                   ELSE InitialChartData)
  /\ toasts' = {}
  /\ loading' = FALSE
  /\ lastCalculation' = <<[body |-> body, budget |-> calculations[i].budget,
                            duration |-> calculations[i].duration]>>
  /\ UNCHANGED <<budget, duration, employees, customFields, files, documentLoading,
                 extractedData, uploads, lastUpload, actions>>
  /\ TrackContext
  /\ UNCHANGED <<panel, chatRest>>

\* a catch block of calculateROI that clears the analysis shown
CalculationRejectsClearing(i) ==
  /\ i \in DOMAIN calculations
  /\ calculations' = Without(calculations, i)
  /\ toasts' = {"Failed to calculate ROI"}
  /\ loading' = FALSE
  /\ response' = <<>>
  /\ chartData' = InitialChartData
  /\ UNCHANGED <<budget, duration, employees, customFields, files,
                 documentLoading, extractedData, uploads,
                 lastUpload, lastCalculation, actions>>
  /\ UNCHANGED <<panel, chatRest, tracked>>

\* calculateROI from its await on, the request rejected
CalculationRejects(i) ==
  /\ i \in DOMAIN calculations
  /\ calculations' = Without(calculations, i)
  /\ toasts' = {"Failed to calculate ROI"}
  /\ loading' = FALSE
  /\ UNCHANGED <<budget, duration, chartData, employees, customFields, files,
                 response, documentLoading, extractedData, uploads,
                 lastUpload, lastCalculation, actions>>
  /\ UNCHANGED <<panel, chatRest, tracked>>

\* handleInputChange of the chat's textarea, which is disabled while loading
handleInputChange(value) ==
  /\ UserActs
  /\ ~isLoading
  /\ value # inputValue
  /\ inputValue' = value
  /\ toasts' = {}
  /\ UNCHANGED <<panel, form, app, tracked, isLoading, serviceStatus, error, asks,
                 timers, retries>>

\* sendMessage up to its await or its timer
sendMessage ==
  /\ UserActs
  /\ ~(Trim(inputValue) = <<>> \/ isLoading)
  /\ error' = Null
  /\ messages' = Append(messages, Message("user", "question"))
  /\ inputValue' = <<>>
  /\ isLoading' = TRUE
  /\ toasts' = {}
  /\ IF serviceStatus = "unavailable"
     THEN timers' = timers + 1 /\ UNCHANGED <<asks, issued>>
     ELSE /\ asks' = Append(asks, [sessionId |-> sessionId,
                                    isNewSession |-> isNewSession])
          /\ issued' = issued + 1
          /\ UNCHANGED timers
  /\ UNCHANGED <<panel, form, app>>
  /\ UNCHANGED <<currentContextVersion, sessionId, generated, isNewSession,
                 healthChecks, serviceStatus, retries>>

\* a timer callback that appends the fallback message and goes on loading
FallbackTimerStillLoading ==
  /\ timers > 0
  /\ timers' = timers - 1
  /\ messages' = Append(messages, FallbackMessage)
  /\ UNCHANGED isLoading
  /\ toasts' = {}
  /\ UNCHANGED <<panel, form, app, actions>>
  /\ UNCHANGED <<currentContextVersion, sessionId, generated, isNewSession,
                 healthChecks, issued, inputValue, serviceStatus, error, asks,
                 retries>>

\* the callback of the timer set by sendMessage while the service is unavailable
FallbackTimer ==
  /\ timers > 0
  /\ timers' = timers - 1
  /\ messages' = Append(messages, FallbackMessage)
  /\ isLoading' = FALSE
  /\ toasts' = {}
  /\ UNCHANGED <<panel, form, app, actions>>
  /\ UNCHANGED <<currentContextVersion, sessionId, generated, isNewSession,
                 healthChecks, issued, inputValue, serviceStatus, error, asks,
                 retries>>

\* a catch block of sendMessage with no finally block behind it
AskFailsStillLoading ==
  /\ messages' = Append(messages, ErrorMessage)
  /\ error' = "An error occurred. Service might be unavailable."
  /\ serviceStatus' = "unavailable"
  /\ UNCHANGED isLoading

\* the catch and finally blocks of sendMessage
AskFails ==
  /\ messages' = Append(messages, ErrorMessage)
  /\ error' = "An error occurred. Service might be unavailable."
  /\ serviceStatus' = "unavailable"
  /\ isLoading' = FALSE

\* sendMessage from its await on, the request fulfilled with the body; a
\* new session identifier runs the session effect again
AskResolves(i, body) ==
  /\ i \in DOMAIN asks
  /\ body \in AskBodies(asks[i].sessionId)
  /\ asks' = Without(asks, i)
  /\ isNewSession' = (IF asks[i].isNewSession THEN FALSE ELSE isNewSession)
  /\ IF "answer" \in DOMAIN body
     THEN /\ messages' = Append(messages, Message("assistant", body.answer))
          /\ sessionId' = (IF "sessionId" \in DOMAIN body THEN body.sessionId
                           ELSE sessionId)
          /\ healthChecks' = (IF sessionId' # sessionId THEN healthChecks + 1
                              ELSE healthChecks)
          /\ isLoading' = FALSE
          /\ UNCHANGED <<error, serviceStatus>>
     ELSE AskFails /\ UNCHANGED <<sessionId, healthChecks>>
  /\ toasts' = {}
  /\ UNCHANGED <<panel, form, app, actions>>
  /\ UNCHANGED <<currentContextVersion, generated, issued, inputValue, timers,
                 retries>>

\* sendMessage from its await on, the request rejected
AskRejects(i) ==
  /\ i \in DOMAIN asks
  /\ asks' = Without(asks, i)
  /\ AskFails
  /\ toasts' = {}
  /\ UNCHANGED <<panel, form, app, actions>>
  /\ UNCHANGED <<currentContextVersion, sessionId, generated, isNewSession,
                 healthChecks, issued, inputValue, timers, retries>>

\* the outcomes of a request to /agent_health
HealthOutcomes == {"available", "degraded", "rejected"}

\* checkAgentHealth of the session effect from its await on
HealthReports(outcome) ==
  /\ healthChecks > 0
  /\ outcome \in HealthOutcomes
  /\ healthChecks' = healthChecks - 1
  /\ IF outcome = "available"
     THEN serviceStatus' = "available" /\ error' = Null
     ELSE /\ serviceStatus' = "unavailable"
          /\ error' = "ROI Assistant service is currently unavailable. Some features may be limited."
  /\ toasts' = {}
  /\ UNCHANGED <<panel, form, app, actions>>
  /\ UNCHANGED <<currentContextVersion, sessionId, generated, isNewSession,
                 messages, issued, inputValue, isLoading, asks, timers, retries>>

\* the Retry button is rendered while the service is unavailable
RetryOffered == serviceStatus = "unavailable"

\* retryConnection up to its await
retryConnection ==
  /\ UserActs
  /\ RetryOffered
  /\ error' = "Checking service status..."
  /\ serviceStatus' = "checking"
  /\ retries' = retries + 1
  /\ toasts' = {}
  /\ UNCHANGED <<panel, form, app, tracked, inputValue, isLoading, asks, timers>>

\* retryConnection from its await on
RetryReports(outcome) ==
  /\ retries > 0
  /\ outcome \in HealthOutcomes
  /\ retries' = retries - 1
  /\ IF outcome = "available"
     THEN /\ serviceStatus' = "available"
          /\ error' = Null
          /\ messages' = Append(messages, RestoredMessage)
     ELSE /\ serviceStatus' = "unavailable"
          /\ error' = (IF outcome = "degraded"
                       THEN "ROI Assistant service is still unavailable. Please try again later."
                       ELSE "ROI Assistant service is currently unavailable. Please try again later.")
          /\ UNCHANGED messages
  /\ toasts' = {}
  /\ UNCHANGED <<panel, form, app, actions>>
  /\ UNCHANGED <<currentContextVersion, sessionId, generated, isNewSession,
                 healthChecks, issued, inputValue, isLoading, asks, timers>>

NextPage ==
  \/ \E value \in BudgetEntries : ChangeBudget(value)
  \/ \E value \in EmployeesEntries : ChangeEmployees(value)
  \/ \E value \in DurationEntries : ChangeDuration(value)
  \/ \E selection \in FileSelections : handleFileChange(selection)
  \/ \E i \in DOMAIN uploads :
       \E body \in UploadBodies(uploads[i].files) : UploadResolves(i, body)
  \/ \E i \in DOMAIN uploads : UploadRejects(i)
  \/ calculateROI
  \/ \E i \in DOMAIN calculations :
       \E body \in CalculationBodies : CalculationResolves(i, body)
  \/ \E i \in DOMAIN calculations : CalculationRejects(i)
  \/ \E value \in ChatEntries : handleInputChange(value)
  \/ sendMessage
  \/ FallbackTimer
  \/ \E i \in DOMAIN asks :
       \E body \in AskBodies(asks[i].sessionId) : AskResolves(i, body)
  \/ \E i \in DOMAIN asks : AskRejects(i)
  \/ \E outcome \in HealthOutcomes : HealthReports(outcome)
  \/ retryConnection
  \/ \E outcome \in HealthOutcomes : RetryReports(outcome)

SpecPage == InitPage /\ [][NextPage]_vars

\* a request in flight comes back, rejected or fulfilled
UploadReturns ==
  \E i \in DOMAIN uploads :
    \/ UploadRejects(i)
    \/ \E body \in UploadBodies(uploads[i].files) : UploadResolves(i, body)
CalculationReturns ==
  \E i \in DOMAIN calculations :
    \/ CalculationRejects(i)
    \/ \E body \in CalculationBodies : CalculationResolves(i, body)
AskReturns ==
  \E i \in DOMAIN asks :
    \/ AskRejects(i)
    \/ \E body \in AskBodies(asks[i].sessionId) : AskResolves(i, body)

\* the page when every request is fulfilled or rejected in the end and the
\* event loop runs every timer that is due, followed over fewer actions of
\* the user
MaxFairActions == 2

FewActions == actions' <= MaxFairActions

NextPageFair ==
  \/ \E value \in BudgetEntries : ChangeBudget(value) /\ FewActions
  \/ \E value \in EmployeesEntries : ChangeEmployees(value) /\ FewActions
  \/ \E value \in DurationEntries : ChangeDuration(value) /\ FewActions
  \/ \E selection \in FileSelections : handleFileChange(selection) /\ FewActions
  \/ calculateROI /\ FewActions
  \/ \E value \in ChatEntries : handleInputChange(value) /\ FewActions
  \/ sendMessage /\ FewActions
  \/ retryConnection /\ FewActions
  \/ UploadReturns
  \/ CalculationReturns
  \/ AskReturns
  \/ FallbackTimer
  \/ \E outcome \in HealthOutcomes : HealthReports(outcome)
  \/ \E outcome \in HealthOutcomes : RetryReports(outcome)

SpecPageFair ==
  /\ InitPage
  /\ [][NextPageFair]_vars
  /\ WF_vars(UploadReturns)
  /\ WF_vars(CalculationReturns)
  /\ WF_vars(AskReturns)
  /\ WF_vars(FallbackTimer)

(***************************************************************************)
(* The page from its first render on, and after an analysis and a chat,    *)
(* followed over the fewer actions of the user                             *)
(***************************************************************************)
MaxTurns == 5

\* the chat after n questions have been answered
Conversation(n) ==
  [k \in 1..(2 * n + 1) |->
     IF k = 1 THEN Greeting
     ELSE IF k % 2 = 0 THEN Message("user", "question")
     ELSE Message("assistant", "answer")]

\* the analysis the page has received in the states it starts from below
EarlierAnalysis == [response |-> Chars("ROI of 25% with total cost $1,000")]

\* the state of the useState hooks of both components at the first render,
\* no effect run yet: no context version recorded, no session identifier
FirstRender ==
  /\ budget = <<>>
  /\ duration = <<>>
  /\ employees = <<>>
  /\ customFields = <<>>
  /\ files = <<>>
  /\ response = <<>>
  /\ chartData = InitialChartData
  /\ loading = FALSE
  /\ documentLoading = FALSE
  /\ extractedData = <<>>
  /\ toasts = {}
  /\ uploads = <<>>
  /\ calculations = <<>>
  /\ lastUpload = <<>>
  /\ lastCalculation = <<>>
  /\ messages = <<Greeting>>
  /\ inputValue = <<>>
  /\ isLoading = FALSE
  /\ sessionId = 0
  /\ generated = 0
  /\ serviceStatus = "checking"
  /\ error = Null
  /\ currentContextVersion = <<>>
  /\ isNewSession = FALSE
  /\ asks = <<>>
  /\ timers = 0
  /\ healthChecks = 0
  /\ issued = 0
  /\ retries = 0
  /\ actions = 0

\* the page (but for the count of the user's actions) after n questions
\* have been answered by the backend, asked
\* with the form still empty, or asked after the form was filled in and the
\* analysis came back
Worked(analysed, n) ==
  /\ budget = (IF analysed THEN Chars("2000") ELSE <<>>)
  /\ duration = (IF analysed THEN Chars("12") ELSE <<>>)
  /\ employees = (IF analysed THEN Chars("5") ELSE <<>>)
  /\ customFields = <<>>
  /\ files = <<>>
  /\ response = (IF analysed THEN EarlierAnalysis.response ELSE <<>>)
  /\ chartData = (IF analysed
                  THEN ChartOf(EarlierAnalysis.response, Chars("2000"), Chars("12"))
                  ELSE InitialChartData)
  /\ loading = FALSE
  /\ documentLoading = FALSE
  /\ extractedData = <<>>
  /\ toasts = {}
  /\ uploads = <<>>
  /\ calculations = <<>>
  /\ lastUpload = <<>>
  /\ lastCalculation =
       (IF analysed
        THEN <<[body |-> EarlierAnalysis, budget |-> Chars("2000"),
                duration |-> Chars("12")]>>
        ELSE <<>>)
  /\ messages = Conversation(n)
  /\ inputValue = <<>>
  /\ isLoading = FALSE
  /\ sessionId = 1
  /\ generated = 1
  /\ serviceStatus = "checking"
  /\ error = Null
  /\ currentContextVersion =
       calculateContextVersion(budget, employees, duration, customFields, response)
  /\ isNewSession = FALSE
  /\ asks = <<>>
  /\ timers = 0
  /\ healthChecks = 2
  /\ issued = 0
  /\ retries = 0

InitContext ==
  /\ text = <<>>
  /\ pc = "raw"
  /\ processedText = <<>>
  /\ trail = NoTrail
  /\ rendered = <<>>
  /\ again = <<>>
  /\ \/ FirstRender
     \/ Worked(FALSE, 1) /\ actions = 0
     \/ \E n \in {MaxTurns - 1, MaxTurns} : Worked(TRUE, n) /\ actions = 0

\* the context version effect after the first render
FirstContextEffect ==
  /\ currentContextVersion = <<>>
  /\ UNCHANGED <<panel, form, app, chatRest, toasts, actions>>
  /\ TrackContext

\* the session effect after the first render: an identifier is generated and
\* the health check issued, and issued again by the run the identifier causes
FirstSessionEffect ==
  /\ currentContextVersion # <<>>
  /\ sessionId = 0
  /\ sessionId' = generated + 1
  /\ generated' = generated + 1
  /\ healthChecks' = healthChecks + 2
  /\ UNCHANGED <<panel, form, app, chatRest, toasts, actions>>
  /\ UNCHANGED <<currentContextVersion, isNewSession, messages, issued>>

\* the effects of the first render have run
EffectsRun == currentContextVersion # <<>> /\ sessionId # 0

NextContext ==
  \/ FirstContextEffect
  \/ FirstSessionEffect
  \/ EffectsRun /\ NextPage /\ FewActions

SpecContext == InitContext /\ [][NextContext]_vars

(***************************************************************************)
(* The chat over a longer run: the budget input, the chat and its service  *)
(***************************************************************************)
MoreActions == 5

\* one question has been answered, the form is empty, and the user has
\* MoreActions actions to take beside the MaxActions of the page: the count
\* of the actions starts so far below zero
InitSession ==
  /\ text = <<>>
  /\ pc = "raw"
  /\ processedText = <<>>
  /\ trail = NoTrail
  /\ rendered = <<>>
  /\ again = <<>>
  /\ Worked(FALSE, 1)
  /\ actions = 0 - MoreActions

NextSession ==
  \/ \E value \in BudgetEntries : ChangeBudget(value)
  \/ \E value \in ChatEntries : handleInputChange(value)
  \/ sendMessage
  \/ FallbackTimer
  \/ \E i \in DOMAIN asks :
       \E body \in AskBodies(asks[i].sessionId) : AskResolves(i, body)
  \/ \E i \in DOMAIN asks : AskRejects(i)
  \/ \E outcome \in HealthOutcomes : HealthReports(outcome)
  \/ retryConnection
  \/ \E outcome \in HealthOutcomes : RetryReports(outcome)

SpecSession == InitSession /\ [][NextSession]_vars

(***************************************************************************)
(* The form and its uploads: selections of several files, a budget typed   *)
(* that no document holds, and custom fields added by hand                 *)
(***************************************************************************)
TypedBudgets == {<<>>, Chars("9")}
SeveralFiles == FileSelections \cup {<<"a.pdf", "b.pdf">>}

\* handleAddField: one more custom field, its title and its value empty
handleAddField ==
  /\ UserActs
  /\ customFields' = Append(customFields, [title |-> <<>>, value |-> <<>>])
  /\ toasts' = {}
  /\ UNCHANGED <<budget, duration, chartData, employees, files, response,
                 loading, documentLoading, extractedData, uploads, calculations,
                 lastUpload, lastCalculation>>
  /\ TrackContext
  /\ UNCHANGED <<panel, chatRest>>

NextUpload ==
  \/ \E value \in TypedBudgets : ChangeBudget(value)
  \/ handleAddField
  \/ \E selection \in SeveralFiles : handleFileChange(selection)
  \/ \E i \in DOMAIN uploads :
       \E body \in UploadBodies(uploads[i].files) : UploadResolves(i, body)
  \/ \E i \in DOMAIN uploads : UploadRejects(i)

SpecUpload == InitPage /\ [][NextUpload]_vars

(***************************************************************************)
(* Properties                                                              *)
(***************************************************************************)
IsInk(c) == c \notin WhiteSpace

\* the characters of s that are not white space, in order
Ink(s) == SelectSeq(s, IsInk)

PlaceholderStem == Chars("__LATEX_BLOCK_")

\* a display block stands alone in s: blank lines (or nothing but line
\* breaks up to the end of the text) on both sides
StandsAlone(s, block) ==
  \E i \in 1..Len(s) :
    /\ StartsAt(s, i, block)
    /\ \/ StartsAt(s, i - 2, Chars("\n\n"))
       \/ \A k \in 1..(i - 1) : s[k] = "\n"
    /\ \/ StartsAt(s, i + Len(block), Chars("\n\n"))
       \/ \A k \in (i + Len(block))..Len(s) : s[k] = "\n"

\* C1: every display-math block the normalizer emits is delimited by double
\* dollar signs and stands between blank lines in the returned string, and
\* the line ROI = \frac{100}{50} \times 100 is returned as that line between
\* double dollar signs, alone between blank lines.
C1_DisplayBlocksStandAlone ==
  (pc # "raw" /\ text # <<>>) =>
    /\ \A k \in 1..Len(trail.blocks) :
         IsDisplayBlock(trail.blocks[k]) =>
           StandsAlone(processedText, Chars("$$") \o trail.blocks[k] \o Chars("$$"))
    /\ text = ROILine => StandsAlone(processedText, Chars("$$") \o ROILine \o Chars("$$"))

\* C2: on re-insertion every extracted span that holds an equals sign or
\* \frac is wrapped in $$...$$ and every other span in $...$.
C2_DelimitersByKind ==
  (pc # "raw" /\ text # <<>>) =>
    \A k \in 1..Len(trail.blocks) :
      LET b == trail.blocks[k]
          double == Chars("$$") \o b \o Chars("$$")
          single == Chars("$") \o b \o Chars("$")
      IN IF Includes(b, <<"=">>) \/ Includes(b, Chars("\\frac"))
         THEN Includes(trail.formatted, double)
         ELSE Includes(trail.formatted, single) /\ ~Includes(trail.formatted, double)

\* C3: prepareContent is idempotent on its own output: a second application
\* returns what the first returned.
C3_Idempotent == pc = "again" => again = processedText

\* the text holds no recognized math token: no command of the allow-list and
\* no math delimiter
NoMathToken(t) == ~HasLatexCommand(t) /\ ~Includes(t, <<"$">>)

\* C4: for a text without math tokens the normalizer adds, removes and
\* reorders no character that is not white space.
C4_InkKeptWithoutMath ==
  (pc # "raw" /\ NoMathToken(text)) => Ink(processedText) = Ink(text)

\* the delimiters of the math spans of s: the dollar signs of each $$...$$
\* and each $...$ (on one line, not blank), read from the left
MathSpanRule(s, i) ==
  IF DisplayMathEnd(s, i) > 0 THEN Match(DisplayMathEnd(s, i), <<>>)
  ELSE IF DollarSpanRule(s, i).ok /\ NonBlank(DollarSpanRule(s, i).g[1])
  THEN DollarSpanRule(s, i)
  ELSE NoMatch

MathDelimiters(s) ==
  LET ms == AllMatches(s, [i \in 1..Len(s) |-> MathSpanRule(s, i)])
  IN {i \in 1..Len(s) :
        /\ s[i] = "$"
        /\ \E k \in 1..Len(ms) :
             /\ ms[k].start <= i
             /\ i < ms[k].end
             /\ \/ \A j \in ms[k].start..i : s[j] = "$"
                \/ \A x \in i..(ms[k].end - 1) : s[x] = "$"}

\* a backslash before each amount outside math, the delimiters of math spans
\* as they were
EscapeOutsideMath(s) ==
  LET IsAmount(m) == m.start \notin MathDelimiters(s)
      ms == SelectSeq(AllMatches(s, [i \in 1..Len(s) |-> CurrencyRule(s, i)]), IsAmount)
  IN Splice(s, ms, [k \in 1..Len(ms) |-> <<"\\">> \o SubSeq(s, ms[k].start, ms[k].end - 1)])

\* C5: the currency step escapes currency amounts only, and passes the
\* delimiters of a math span through, whatever the span starts with.
C5_OnlyAmountsEscaped ==
  (pc # "raw" /\ text # <<>>) => trail.currency = EscapeOutsideMath(trail.bullets)

\* C6: after prepareContent no single newline stands between two characters
\* that are not newlines.
C6_NoSingleNewline ==
  pc # "raw" =>
    \A i \in 1..(Len(processedText) - 2) :
      ~(/\ processedText[i] # "\n"
        /\ processedText[i + 1] = "\n"
        /\ processedText[i + 2] # "\n")

\* what C7 says of one line
BulletLineNormalized(before, after) ==
  IF Len(before) >= 2 /\ before[1] = "-" /\ before[2] \notin WhiteSpace
  THEN after = <<"-", " ">> \o Tail2(before, 2)
  ELSE after = before

\* C7: bullet normalization puts one space after the dash of every line that
\* starts with a dash and a character that is no white space, leaves every
\* other line as it was, and is idempotent.
C7_BulletNormalization ==
  (pc # "raw" /\ text # <<>>) =>
    LET before == SplitLines(text)
        after == SplitLines(trail.bullets)
    IN /\ Len(after) = Len(before)
       /\ \A k \in 1..Len(before) : BulletLineNormalized(before[k], after[k])
       /\ NormalizeBullets(trail.bullets) = trail.bullets

C7_Witness ==
  /\ pc = "rendered"
  /\ text = Chars("--a\n-b\n- c")
  /\ trail.bullets = Chars("- -a\n- b\n- c")

\* C8: the returned string holds no placeholder token (for a text that held
\* none).
C8_NoPlaceholderLeft ==
  (pc # "raw" /\ ~Includes(text, PlaceholderStem)) =>
    ~Includes(processedText, PlaceholderStem)

\* a digit run with a comma before every group of three digits from the right
Grouped(ds) ==
  Concat([i \in 1..Len(ds) |->
            IF i > 1 /\ (Len(ds) - i + 1) % 3 = 0 THEN <<",", ds[i]>> ELSE <<ds[i]>>])

\* C10: every dollar sign followed by a digit run (that no further digit
\* follows) is rewritten with thousands separators wherever it stands: the
\* grouped amount is in the result.  (Runs with a leading zero are left to
\* the claim about the digits themselves.)
C10_EveryAmountGrouped ==
  pc # "raw" =>
    \A i \in 1..Len(text) :
      (text[i] = "$" /\ i < Len(text) /\ text[i + 1] \in Digits \ {"0"}) =>
        LET e == RunEnd(text, i + 1, Digits)
        IN Includes(rendered, <<"$">> \o Grouped(SubSeq(text, i + 1, e - 1)))

\* a text is a sequence of characters
IsText(s) == s \in Seq(STRING) /\ \A i \in 1..Len(s) : Len(s[i]) = 1

IsChartData(data) ==
  /\ \A field \in {"roi", "costSavings", "paybackPeriod", "npv", "totalCost",
                   "totalBenefit", "annualBenefit"} : IsNumber(data[field])
  /\ data.hasMonthlyData \in BOOLEAN
  /\ \A i \in 1..Len(data.monthlyData) :
       /\ data.monthlyData[i].month = i
       /\ IsNumber(data.monthlyData[i].cost)
       /\ IsNumber(data.monthlyData[i].benefit)
       /\ IsNumber(data.monthlyData[i].cumulativeBenefit)

\* the lines of s, as "." and ^ see them
LineOf(s, i) ==
  {j \in 1..Len(s) : \A k \in (IF i < j THEN i ELSE j)..(IF i < j THEN j ELSE i) :
                        s[k] \notin LineTerminators}

\* No rule of either prepareContent and none of formatCurrency matches in
\* t: no two dollar signs on a line and none before a digit, no backslash
\* before a brace, a bracket or a dollar sign, no command of the allow-list,
\* no class string, no equation line, no dash at a line start before a
\* character that is no white space, no two white-space characters side by
\* side and no line break between two lines.
Inert(t) ==
  /\ \A i, j \in 1..Len(t) : (t[i] = "$" /\ t[j] = "$" /\ i # j) => j \notin LineOf(t, i)
  /\ \A i \in 1..(Len(t) - 1) :
       /\ ~(t[i] = "$" /\ t[i + 1] \in Digits)
       /\ ~(t[i] = "\\" /\ t[i + 1] \in {"{", "}", "[", "]", "$"})
       /\ ~(t[i] \in WhiteSpace /\ t[i + 1] \in WhiteSpace)
       /\ ~(t[i] = "-" /\ AtLineStart(t, i) /\ t[i + 1] \notin WhiteSpace)
  /\ \A i \in 2..(Len(t) - 1) : t[i] # "\n"
  /\ \A k \in 1..Len(latexCommands) : ~Includes(t, latexCommands[k])
  /\ ~Includes(t, Chars("text-"))
  /\ ~Includes(t, Chars("dark:"))
  /\ \A side \in {"t", "b", "l", "r"} : ~Includes(t, <<"m", side, "-">>)
  /\ \A i, j \in 1..Len(t) :
       (t[i] = "=" /\ t[j] \in {"*", "×"}) => j \notin LineOf(t, i)

\* a is what is left of b when some characters of b are taken out
IsSubsequence(a, b) ==
  LET f[i \in 0..Len(a), j \in 0..Len(b)] ==
        IF i = 0 THEN TRUE
        ELSE IF j = 0 THEN FALSE
        ELSE IF a[i] = b[j] THEN f[i - 1, j - 1]
        ELSE f[i, j - 1]
  IN f[Len(a), Len(b)]

\* C9: prepareContent (both forms), formatCurrency and
\* extractChartDataFromResponse return a value for every text, malformed
\* ones included: chart data whose fields are numbers, and texts; the empty
\* text gives the empty text; a text in which no rule matches is returned as
\* it is; and the short form only inserts characters, so every part of the
\* text stands unmodified in its result.
C9_TotalAndUnmatchedKept ==
  /\ IsChartData(chartData)
  /\ pc = "rendered" =>
       /\ IsText(processedText)
       /\ IsText(rendered)
       /\ text = <<>> => (processedText = <<>> /\ rendered = <<>>)
       /\ Inert(text) => (processedText = text /\ rendered = text)
       /\ DOMAIN trail = DOMAIN NoTrail => IsSubsequence(text, processedText)

C9_Witness ==
  /\ pc = "rendered"
  /\ text = Chars("\\foo{x $ y")
  /\ Inert(text)
  /\ DOMAIN trail = DOMAIN NoLatexTrail
  /\ rendered = text
  /\ chartData.totalCost = Finite(2000, 1)

\* no dollar sign of t stands immediately before a digit
NoDollarDigit(t) ==
  \A i \in 1..(Len(t) - 1) : ~(t[i] = "$" /\ t[i + 1] \in Digits)

\* C11: formatCurrency returns a text in which no dollar sign is immediately
\* followed by a digit unchanged (the text it is given first, and its own
\* result when that holds no such dollar sign).
C11_IdentityWithoutAmounts ==
  /\ (pc # "raw" /\ NoDollarDigit(text)) => rendered = text
  /\ (pc = "again" /\ NoDollarDigit(rendered)) => again = rendered

C11_Witness ==
  /\ pc = "rendered"
  /\ text = <<"$", "a", "1", "$">>
  /\ NoDollarDigit(text)
  /\ rendered = text

\* C12: on a text whose only marker is an ROI percentage, "ROI of N%", the
\* extracted roi is N and costSavings, paybackPeriod and npv are zero,
\* whatever the form's budget and duration hold.
C12_RoiOnly ==
  (pc = "charted" /\ text \in RoiTexts) =>
    \A num \in RoiNumerals :
      (\E before \in ChartFillers, after \in ChartFillers :
         text = before \o RoiStatement(num) \o after) =>
        /\ chartData.roi = NumeralValue(num)
        /\ chartData.costSavings = Zero
        /\ chartData.paybackPeriod = Zero
        /\ chartData.npv = Zero

\* the pattern of a field matches the text
RoiMatches(t) == KeywordMatch(t, Chars("ROI"), [q \in 1..Len(t) |-> PercentRule(t, q)]).ok
PaybackMatches(t) ==
  KeywordMatch(t, Chars("payback period"), [q \in 1..Len(t) |-> PeriodRule(t, q)]).ok
AmountMatches(t, word) == AmountMatch(t, Chars(word)).ok

\* the four fields that are read from the text alone are zero when their
\* pattern does not match
IndicatorsDefaultToZero ==
  /\ ~RoiMatches(text) => chartData.roi = Zero
  /\ ~AmountMatches(text, "savings") => chartData.costSavings = Zero
  /\ ~PaybackMatches(text) => chartData.paybackPeriod = Zero
  /\ ~AmountMatches(text, "NPV") => chartData.npv = Zero

\* C13 as claimed: every field whose pattern does not match the text is
\* zero, the totals included, and a monthly series is there only when a total
\* cost and a total benefit were recovered.
C13_UnmatchedFieldsZero ==
  pc = "charted" =>
    /\ IndicatorsDefaultToZero
    /\ ~AmountMatches(text, "total cost") => chartData.totalCost = Zero
    /\ ~AmountMatches(text, "total benefit") => chartData.totalBenefit = Zero
    /\ ~AmountMatches(text, "annual benefit") => chartData.annualBenefit = Zero
    /\ chartData.hasMonthlyData =>
         (GreaterThanZero(chartData.totalCost) /\ GreaterThanZero(chartData.totalBenefit))

\* the number a budget field of the form stands for (none: zero)
BudgetNumber(field) ==
  CASE field = Chars("2000") -> Finite(2000, 1)
    [] field = Chars("500") -> Finite(500, 1)
    [] OTHER -> Zero

\* C13 amended: roi, costSavings, paybackPeriod and npv are zero when their
\* pattern does not match; an unmatched totalCost is the form's budget (zero
\* when the budget is no number); an unmatched totalBenefit is zero unless
\* roi and totalCost are above zero, and an unmatched annualBenefit is zero
\* unless totalBenefit is above zero and the form holds a duration (they are
\* then derived); a monthly series is present only when totalCost and
\* annualBenefit are above zero and the form holds a duration.
C13_UnmatchedFieldsFallBack ==
  pc = "charted" =>
    /\ IndicatorsDefaultToZero
    /\ ~AmountMatches(text, "total cost") => chartData.totalCost = BudgetNumber(budget)
    /\ (/\ ~AmountMatches(text, "total benefit")
        /\ ~(GreaterThanZero(chartData.roi) /\ GreaterThanZero(chartData.totalCost)))
         => chartData.totalBenefit = Zero
    /\ (/\ ~AmountMatches(text, "annual benefit")
        /\ ~(GreaterThanZero(chartData.totalBenefit) /\ duration # <<>>))
         => chartData.annualBenefit = Zero
    /\ chartData.hasMonthlyData =>
         /\ GreaterThanZero(chartData.totalCost)
         /\ GreaterThanZero(chartData.annualBenefit)
         /\ duration # <<>>

C13_Witness ==
  /\ pc = "charted"
  /\ text = Chars("ROI of 25%")
  /\ budget = Chars("2000")
  /\ duration = Chars("12")
  /\ chartData.costSavings = Zero
  /\ chartData.totalCost = Finite(2000, 1)
  /\ chartData.totalBenefit = Finite(2500, 1)
  /\ chartData.annualBenefit = Finite(2500, 1)
  /\ chartData.hasMonthlyData

\* -x
Negate(x) == [x EXCEPT !.s = 0 - x.s]

\* x <= y, for finite x and y
AtMost(x, y) == Signum(Plus(y, Negate(x))) >= 0

\* the series of data has count entries numbered from 1, the cost stands in
\* month 1 alone, every month has the same benefit and the cumulative
\* benefit never falls
IsSeries(data, count, cost) ==
  /\ data.hasMonthlyData
  /\ Len(data.monthlyData) = count
  /\ \A i \in 1..count :
       /\ data.monthlyData[i].month = i
       /\ data.monthlyData[i].cost = (IF i = 1 THEN cost ELSE Zero)
       /\ data.monthlyData[i].benefit = data.monthlyData[1].benefit
       /\ i > 1 => AtMost(data.monthlyData[i - 1].cumulativeBenefit,
                          data.monthlyData[i].cumulativeBenefit)

\* the exact value m * 2^e of |x - y|, for finite x and y above zero
Distance(x, y) ==
  LET e0 == IF x.e < y.e THEN x.e ELSE y.e
      a == ShiftLeft(x.m, x.e - e0)
      b == ShiftLeft(y.m, y.e - e0)
  IN <<IF BigLess(a, b) THEN BigSub(b, a) ELSE BigSub(a, b), e0>>

\* p[1] * 2^p[2] <= q[1] * 2^q[2]
ExactAtMost(p, q) ==
  LET e0 == IF p[2] < q[2] THEN p[2] ELSE q[2]
  IN ~BigLess(ShiftLeft(q[1], q[2] - e0), ShiftLeft(p[1], p[2] - e0))

\* x is y but for the rounding of the count + 3 operations that lead from y
\* to x: |x - y| <= y * (count + 3) / 2^53
Approximates(x, y, count) ==
  /\ x.k = "num"
  /\ ExactAtMost(Distance(x, y), <<BigTimesLimb(y.m, count + 3), y.e - 53>>)

\* C14 (as stated): for a text stating a total cost C and a total benefit B
\* above zero and no annual benefit, and a duration of D whole months, the
\* monthly series has exactly D entries numbered 1..D, month 1 has cost C
\* and every other month cost 0, every month has the same benefit, the
\* cumulative benefit never falls and the last cumulative benefit equals B
C14_SeriesEndsAtBenefit ==
  \A c \in SeriesCosts, b \in SeriesBenefits, costFirst \in BOOLEAN, d \in 1..MaxMonths :
    (/\ pc = "charted"
     /\ text = SeriesText(c, b, costFirst)
     /\ duration = NumberToChars(d))
      => /\ IsSeries(chartData, d, ParseAmount(c))
         /\ chartData.monthlyData[d].cumulativeBenefit = ParseAmount(b)

\* C14 (amended): under the same conditions the series has exactly D
\* entries numbered 1..D, month 1 has cost C and every other month cost 0,
\* every month has the same benefit, the cumulative benefit never falls and
\* the last cumulative benefit approximates B: it differs from B by the
\* rounding of the divisions and additions only, at most B * (D + 3) / 2^53
C14_SeriesEndsNearBenefit ==
  \A c \in SeriesCosts, b \in SeriesBenefits, costFirst \in BOOLEAN, d \in 1..MaxMonths :
    (/\ pc = "charted"
     /\ text = SeriesText(c, b, costFirst)
     /\ duration = NumberToChars(d))
      => /\ IsSeries(chartData, d, ParseAmount(c))
         /\ Approximates(chartData.monthlyData[d].cumulativeBenefit, ParseAmount(b), d)

\* C14 witness: the cost 10,000 and the benefit 15,000 over 12 months give
\* 12 entries that start with the cost 10000 and end at 15000
C14_Witness ==
  /\ pc = "charted"
  /\ text = SeriesText(Chars("10,000"), Chars("15,000"), TRUE)
  /\ duration = Chars("12")
  /\ Len(chartData.monthlyData) = 12
  /\ chartData.monthlyData[1].cost = Finite(10000, 1)
  /\ chartData.monthlyData[12].cumulativeBenefit = Finite(15000, 1)

\* C15 (as stated): at every moment at most one /document_intelligence
\* upload, at most one /calculate_roi call and at most one /ask call is in
\* flight
C15_OneOutstandingPerAction ==
  Len(uploads) <= 1 /\ Len(calculations) <= 1 /\ Len(asks) <= 1

\* C15 (amended): at every moment at most one /calculate_roi call and at
\* most one /ask call is in flight; uploads are not limited, each selection
\* of files issues one more
C15_OneCalculationOneAsk == Len(calculations) <= 1 /\ Len(asks) <= 1

\* a calculation in flight, its button disabled, with an upload in flight
\* beside it
C15_Witness == Len(calculations) = 1 /\ loading /\ Len(uploads) = 1

\* a step in which a response to an upload, to a calculation or to a chat
\* request comes back (for the chat, the fallback timer stands for the
\* response)
UploadCompletes == Len(uploads') < Len(uploads)
CalculationCompletes == Len(calculations') < Len(calculations)
ChatCompletes == Len(asks') < Len(asks) \/ timers' < timers

\* C16 (as stated): the completion of an upload changes no state of the
\* calculation (response, chartData, loading) and none of the chat
\* (messages, sessionId, isNewSession), the completion of a calculation none
\* of the upload (extractedData, documentLoading) and none of the chat, and
\* the completion of a chat request none of the other two
C16_DisjointState ==
  [][ /\ UploadCompletes =>
          UNCHANGED <<response, chartData, loading, messages, sessionId, isNewSession>>
      /\ CalculationCompletes =>
          UNCHANGED <<extractedData, documentLoading, messages, sessionId, isNewSession>>
      /\ ChatCompletes =>
          UNCHANGED <<response, chartData, loading, extractedData, documentLoading>>]_vars

\* the session reset: the context version changed while the message list
\* had more than 10 messages, or more than 2 and there is no analysis text,
\* and the chat starts again with one greeting, a session identifier not
\* used before and isNewSession set
SessionReset ==
  /\ currentContextVersion' # currentContextVersion
  /\ (response' = <<>> /\ Len(messages) > 2) \/ Len(messages) > 10
  /\ messages' = <<NewAnalysisGreeting>>
  /\ sessionId' = generated + 1
  /\ isNewSession'

\* C16 (amended): as stated, but that the completion of an upload or of a
\* calculation which changes the context changes the chat by a session
\* reset when the change is a drastic one
C16_DisjointButForReset ==
  [][ /\ UploadCompletes =>
          /\ UNCHANGED <<response, chartData, loading>>
          /\ UNCHANGED <<messages, sessionId, isNewSession>> \/ SessionReset
      /\ CalculationCompletes =>
          /\ UNCHANGED <<extractedData, documentLoading>>
          /\ UNCHANGED <<messages, sessionId, isNewSession>> \/ SessionReset
      /\ ChatCompletes =>
          UNCHANGED <<response, chartData, loading, extractedData, documentLoading>>]_vars

\* an upload has come back, filled the budget in, and the chat, which held
\* three messages, has been reset
C16_Witness ==
  /\ lastUpload # <<>>
  /\ budget = Chars("2000")
  /\ messages = <<NewAnalysisGreeting>>
  /\ isNewSession
  /\ sessionId = 2

\* C17: whatever the order the requests were issued in, extractedData holds
\* what the upload that came back last brought (its results, or one
\* placeholder with an error for each of its files when it brought none),
\* and response and chartData hold the analysis of the calculation that was
\* answered last
C17_LastArrivalWins ==
  /\ \A u \in {lastUpload[k] : k \in DOMAIN lastUpload} :
       IF "body" \in DOMAIN u /\ "results" \in DOMAIN u.body
       THEN extractedData = u.body.results
       ELSE /\ Len(extractedData) = Len(u.files)
            /\ \A k \in DOMAIN extractedData :
                 /\ extractedData[k].filename = u.files[k]
                 /\ extractedData[k].error # <<>>
  /\ \A c \in {lastCalculation[k] : k \in DOMAIN lastCalculation} :
       "response" \in DOMAIN c.body =>
         /\ response = c.body.response
         /\ chartData = ChartOf(c.body.response, c.budget, c.duration)

\* two uploads overlapped, and the one issued first has come back last: the
\* documents shown are its documents, not those of the files selected last
C17_Witness ==
  /\ uploads = <<>>
  /\ files = <<"b.pdf">>
  /\ lastUpload # <<>>
  /\ lastUpload[1].files = <<"a.pdf">>
  /\ Len(extractedData) = 1
  /\ extractedData[1].filename = "a.pdf"

\* a step in which a /calculate_roi response without the response field, or
\* an /ask response without the answer field, comes back
MalformedAnalysis ==
  \E i \in DOMAIN calculations : CalculationResolves(i, [message |-> Chars("ok")])
MalformedAnswer ==
  \E i \in DOMAIN asks : AskResolves(i, [sessionId |-> asks[i].sessionId])

\* C18: a response without its text field fails that one action only: the
\* user is notified, the response text and the chart data stay as they
\* were, and the chat goes on sending to the backend (its service status is
\* what it was)
C18_MalformedFailsAlone ==
  [][ /\ MalformedAnalysis => toasts' # {} /\ UNCHANGED <<response, chartData>>
      /\ MalformedAnswer =>
           /\ messages' = Append(messages, ErrorMessage)
           /\ UNCHANGED <<sessionId, serviceStatus>>]_vars

\* the two halves of C18, each on its own
C18_MalformedAnalysisFailsAlone ==
  [][MalformedAnalysis => toasts' # {} /\ UNCHANGED <<response, chartData>>]_vars
C18_MalformedAnswerFailsAlone ==
  [][MalformedAnswer =>
       /\ messages' = Append(messages, ErrorMessage)
       /\ UNCHANGED <<sessionId, serviceStatus>>]_vars

\* C19: in every state in which the service status is "unavailable" the
\* Retry button is offered and an error text is shown, whatever the user
\* has sent since the status was set
C19_UnavailableIsShown ==
  serviceStatus = "unavailable" => RetryOffered /\ error # Null

\* C20: when every request comes back, documentLoading, loading and
\* isLoading, once true, are false again later, on every path
C20_LoadingEnds ==
  /\ documentLoading ~> ~documentLoading
  /\ loading ~> ~loading
  /\ isLoading ~> ~isLoading

\* a chat request has failed and the chat is no longer loading
C20_Witness ==
  /\ ~isLoading
  /\ asks = <<>>
  /\ Len(messages) = 3
  /\ messages[2].sender = "user"
  /\ messages[3] = ErrorMessage

\* a step of the context version effect that resets the chat: one greeting,
\* a session identifier not used before, isNewSession set
ChatIsReset ==
  /\ messages' = <<NewAnalysisGreeting>>
  /\ sessionId' = generated + 1
  /\ sessionId' # sessionId
  /\ isNewSession'

C21_WitnessKept ==
  /\ Len(messages) = 2 * MaxTurns - 1
  /\ response # <<>>
  /\ budget = <<>>
  /\ ~isNewSession
  /\ sessionId = 1

\* the chat of three messages has been reset by a change of the form while
\* there was no analysis on the page
C21_WitnessEmpty ==
  /\ messages = <<NewAnalysisGreeting>>
  /\ isNewSession
  /\ response = <<>>
  /\ budget = Chars("2000")

\* the first version has been recorded and the chat is as it was rendered
C21_WitnessFirst ==
  /\ currentContextVersion # <<>>
  /\ sessionId = 0
  /\ messages = <<Greeting>>
  /\ ~isNewSession

\* budget, employees or duration is empty or holds white space only
RequiredFieldBlank ==
  \E field \in {budget, employees, duration} :
    \A k \in 1..Len(field) : field[k] \in WhiteSpace

\* C22: calculateROI invoked while budget, employees or duration is empty
\* or holds white space only issues no /calculate_roi request and leaves
\* loading, response and chartData as they were: it raises the notification
\* to fill in all required fields and nothing else; so every request is
\* issued with the three fields filled in
C22_BlankFieldIssuesNoRequest ==
  [][ /\ (calculateROI /\ RequiredFieldBlank) =>
           /\ UNCHANGED <<calculations, loading, response, chartData>>
           /\ UNCHANGED <<panel, form, app, tracked, chatRest>>
           /\ toasts' = {"Please fill in all required fields!"}
      /\ Len(calculations') > Len(calculations) => ~RequiredFieldBlank ]_vars

\* Calculate has been clicked with the budget filled in and no employees:
\* the notification is up and nothing is in flight
C22_Witness ==
  /\ toasts = {"Please fill in all required fields!"}
  /\ budget = Chars("2000")
  /\ employees = <<>>
  /\ calculations = <<>>
  /\ ~loading

\* a step in which a /calculate_roi request comes back rejected
CalculationFails == \E i \in DOMAIN calculations : CalculationRejects(i)

\* C23: when the /calculate_roi request is rejected, the response text and
\* the chart data shown before stay as they are: loading goes back to false,
\* an error notification is raised, and no other state of the page changes
C23_RejectionKeepsAnalysis ==
  [][ CalculationFails =>
        /\ UNCHANGED <<response, chartData>>
        /\ loading /\ ~loading'
        /\ toasts' = {"Failed to calculate ROI"}
        /\ UNCHANGED <<budget, duration, employees, customFields, files,
                       documentLoading, extractedData, uploads>>
        /\ UNCHANGED <<tracked, chatRest>> ]_vars

\* a second calculation has been rejected and the analysis of the first is
\* still on the page
C23_Witness ==
  /\ toasts = {"Failed to calculate ROI"}
  /\ response = Chars("ROI of 25% with total cost $1,000")
  /\ chartData # InitialChartData
  /\ calculations = <<>>
  /\ ~loading

\* C24: while serviceStatus is "unavailable", sendMessage with an input that
\* is not blank sends no /ask request: it appends the user message and sets
\* one timer; the timer appends one fallback message of the assistant and
\* sets isLoading back to false; sessionId and serviceStatus are left as
\* they are by both, and no second timer is set while one is pending
C24_FallbackWithoutRequest ==
  /\ [][ /\ (sendMessage /\ serviceStatus = "unavailable") =>
             /\ UNCHANGED asks
             /\ messages' = Append(messages, Message("user", "question"))
             /\ timers = 0 /\ timers' = 1
             /\ isLoading'
             /\ UNCHANGED <<sessionId, serviceStatus>>
         /\ FallbackTimer =>
             /\ UNCHANGED asks
             /\ messages' = Append(messages, FallbackMessage)
             /\ timers' = 0
             /\ isLoading /\ ~isLoading'
             /\ UNCHANGED <<sessionId, serviceStatus>> ]_vars
  /\ [](timers > 0 => isLoading /\ asks = <<>>)

\* the question sent while the service was unavailable has got the fallback
\* message for its answer, and no request was sent
C24_Witness ==
  /\ serviceStatus = "unavailable"
  /\ Len(messages) = 3
  /\ messages[2] = Message("user", "question")
  /\ messages[3] = FallbackMessage
  /\ ~isLoading
  /\ asks = <<>>
  /\ timers = 0
  /\ sessionId = 1

\* a step in which sendMessage issues an /ask request, and the request
IssuesAsk == Len(asks') > Len(asks)
AskIssued == asks'[Len(asks')]

\* the chat has been reset: session identifiers are generated at the first
\* render and by the resets
HasBeenReset == generated > 1

\* C25: isNewSession is sent as true on the first /ask request issued after
\* a session reset and on no other request, whatever the order of resets,
\* sends, successes and failures
C25_NewSessionOnFirstRequestOnly ==
  [][ IssuesAsk => (AskIssued.isNewSession <=> (HasBeenReset /\ issued = 0)) ]_vars

\* the two halves of C25: the first request after a reset carries the flag,
\* and no other request does
C25_FirstRequestCarriesFlag ==
  [][ (IssuesAsk /\ HasBeenReset /\ issued = 0) => AskIssued.isNewSession ]_vars
C25_LaterRequestsCarryNoFlag ==
  [][ (IssuesAsk /\ AskIssued.isNewSession) => (HasBeenReset /\ issued = 0) ]_vars

\* the session identifiers used before the last reset: those generated
\* before it, and those the backend gave in exchange for them
UsedBeforeReset ==
  {s \in 1..(generated - 1) : TRUE} \cup {RotatedSession(s) : s \in 1..(generated - 1)}

\* a step in which the reply to a question asked before the last reset
\* comes back
StaleReplyArrives ==
  \E i \in DOMAIN asks :
    /\ asks[i].sessionId \in UsedBeforeReset
    /\ \/ AskRejects(i)
       \/ \E body \in AskBodies(asks[i].sessionId) : AskResolves(i, body)

\* C26: after a session reset sessionId is never a value used before the
\* reset, and no reply to a question asked before the reset is appended to
\* the new message list, also when the request was in flight at the reset
\* and the backend echoes the identifier it was sent
C26_NewSessionOnly ==
  /\ [](HasBeenReset => sessionId \notin UsedBeforeReset)
  /\ [][StaleReplyArrives => UNCHANGED messages]_vars

\* the two halves of C26, each on its own
C26_NoOldSessionId == HasBeenReset => sessionId \notin UsedBeforeReset
C26_NoStaleReply == [][StaleReplyArrives => UNCHANGED messages]_vars

\* the chat was reset with a request in flight, the backend has echoed the
\* identifier the request was sent with, and the chat is back in the
\* session it had left, the answer in its new list
C26_EchoRestoresOldSession ==
  /\ generated = 2
  /\ sessionId = 1
  /\ messages = <<NewAnalysisGreeting, Message("assistant", "answer")>>

\* field is among the custom fields
Present(field, fields) == \E k \in DOMAIN fields : fields[k] = field

\* C27: when the response to an upload arrives, a budget, employees or
\* duration value that is not empty at that moment is not overwritten, and
\* every custom field present at that moment is present afterwards, also
\* the values and the fields the user entered while the upload was in flight
C27_PopulationKeepsInput ==
  [][ UploadCompletes =>
        /\ budget # <<>> => budget' = budget
        /\ employees # <<>> => employees' = employees
        /\ duration # <<>> => duration' = duration
        /\ \A k \in DOMAIN customFields : Present(customFields[k], customFields') ]_vars

\* the two halves of C27, each on its own
C27_KeepsTypedValues ==
  [][ UploadCompletes =>
        /\ budget # <<>> => budget' = budget
        /\ employees # <<>> => employees' = employees
        /\ duration # <<>> => duration' = duration ]_vars
C27_KeepsCustomFields ==
  [][ UploadCompletes =>
        \A k \in DOMAIN customFields : Present(customFields[k], customFields') ]_vars

\* the documents without an error that the upload coming back in this step
\* has brought
ValidDocumentsArrived ==
  IF /\ UploadCompletes
     /\ "body" \in DOMAIN lastUpload'[1]
     /\ "results" \in DOMAIN lastUpload'[1].body
  THEN validResults(lastUpload'[1].body.results)
  ELSE <<>>

\* C28: when an upload returns several valid documents, the custom fields
\* derived from the qualifying financial entries of every one of them are
\* in customFields after the population: no document's fields are
\* overwritten by those of a later document
C28_FieldsOfEveryDocument ==
  [][ \A d \in DOMAIN ValidDocumentsArrived :
        LET derived == DerivedFields(ValidDocumentsArrived[d].financial_data)
        IN \A k \in DOMAIN derived : Present(derived[k], customFields') ]_vars

\* C29: documentLoading is true in every state in which a
\* /document_intelligence request is in flight and false in every state in
\* which none is, whatever the files selected and the order of the responses
C29_LoadingWhileInFlight == documentLoading <=> uploads # <<>>

\* b is a with separators inserted: taking some commas out of b gives a
SeparatorsInserted(a, b) ==
  /\ IsSubsequence(a, b)
  /\ Len(SelectSeq(b, NotComma)) = Len(SelectSeq(a, NotComma))

\* C30: formatCurrency only inserts thousands separators: for every text,
\* digit runs with leading zeros included, taking the separators it
\* inserted out of its result gives the text back, so that no digit is
\* dropped, added or changed; and formatting the result again changes
\* nothing
C30_OnlySeparatorsInserted ==
  /\ pc # "raw" => SeparatorsInserted(text, rendered)
  /\ pc = "again" => again = rendered

\* the two halves of C30, each on its own
C30_DigitsKept == pc # "raw" => SeparatorsInserted(text, rendered)
C30_FormatTwice == pc = "again" => again = rendered
====
